---- MODULE Spec2Model ----
(***************************************************************************)
(* Claim-processing pipeline of surecheck-ai.                              *)
(*                                                                         *)
(* The workflow graph of src/ai/graph/workflow.py is run by a              *)
(* bulk-synchronous engine: the nodes scheduled in one superstep run       *)
(* concurrently on the channel values of the superstep's start, their      *)
(* returned updates are applied when all of them have returned, and the    *)
(* nodes that have an edge from a node of the superstep are scheduled      *)
(* next.  One action below is one node's progress from one suspension      *)
(* point (an awaited inference call) to the next one or to its return.     *)
(*                                                                         *)
(* Timestamps (extraction_timestamp, validation_timestamp) are left out of *)
(* the records: no node reads them.                                        *)
(*                                                                         *)
(* Spec starts where process_claim calls the graph.  UploadSpec starts at  *)
(* the call of process_claim and goes through its loop over the uploaded   *)
(* files first, CancelSpec lets the run be cancelled at an awaited call,   *)
(* and ConcurrentSpec interleaves two calls of process_claim.              *)
(* BackgroundSpec follows a call of process_claim until the uploads it has *)
(* scheduled have run.  PdfSpec runs extract_text_from_bytes of            *)
(* src/utils/pdf_loader.py on one document; in the other specifications a  *)
(* file's extracted_text stands for its result.  TruncationSpec is Spec on *)
(* one document whose text is about as long as the nodes' limits, and      *)
(* LlmSpec calls get_default_llm of src/core/llm.py under each setting of  *)
(* the API keys.                                                           *)
(***************************************************************************)
EXTENDS Integers, Sequences, FiniteSets, TLC

\* ------------------------------------------------------------------ bounds

MaxDocs == 2

\* The files each of two concurrent requests uploads.
MaxConcurrentFiles == 1

\* Two files of one upload may carry the same name.  Names are opaque, so
\* the first file's name is fixed.
Filenames == {"a.pdf", "b.pdf"}

FirstFilename == "a.pdf"

\* The names of the files of a second, concurrent request.
OtherFilenames == {"x.pdf"}

\* ------------------------------------------------------------- enumerations

DocumentType ==
    {"bill", "discharge_summary", "id_card", "pharmacy_bill", "claim_form", "other"}

DocStatus ==
    {"pending", "processing", "completed", "failed", "approved", "rejected",
     "manual_review"}

Severity == {"low", "medium", "high"}

None == "None"

\* ------------------------------------------------------------------- texts
\* A text is ws whitespace characters around a core of core characters that
\* starts and ends with a non-whitespace character.

MinTextLen == 10

TextLen(raw_text) == raw_text.ws + raw_text.core

StripLen(raw_text) == raw_text.core

RawTexts ==
    { [ws |-> 1, core |-> MinTextLen - 1],
      [ws |-> 0, core |-> MinTextLen] }

DocumentInput == [filename : Filenames, raw_text : RawTexts]

RECURSIVE SeqsUpTo(_, _)
SeqsUpTo(S, n) ==
    IF n = 0 THEN {<<>>}
    ELSE LET shorter == SeqsUpTo(S, n - 1)
         IN  shorter \cup {Append(s, x) : s \in {t \in shorter : Len(t) = n - 1}, x \in S}

\* ----------------------------------------------------------------- uploads
\* An uploaded file as process_claim meets it: whether its size is over
\* MAX_FILE_SIZE_BYTES, what file.read() does ("raises", or returns "empty"
\* or some "bytes"), and the text extract_text_from_bytes returns for its
\* bytes.

EmptyText == [ws |-> 0, core |-> 0]

LongText == [ws |-> 0, core |-> MinTextLen]

UsableFile(filename, text) ==
    [filename |-> filename, too_large |-> FALSE, read |-> "bytes",
     extracted_text |-> text]

\* Every file that yields text, and one file for each way of yielding none.
UploadFiles ==
    {UsableFile(f, t) : f \in Filenames, t \in RawTexts}
    \cup {[UsableFile(FirstFilename, LongText) EXCEPT !.too_large = TRUE],
          [UsableFile(FirstFilename, LongText) EXCEPT !.read = "raises"],
          [UsableFile(FirstFilename, LongText) EXCEPT !.read = "empty"],
          [UsableFile(FirstFilename, LongText) EXCEPT !.extracted_text = EmptyText]}

UsableLongFiles(names) == {UsableFile(f, LongText) : f \in names}

\* The iteration without the test of extracted_text.
ProcessFileKeepsEmptyText(file) ==
    IF file.too_large THEN <<>>
    ELSE IF file.read = "raises" THEN <<>>
    ELSE IF file.read = "empty" THEN <<>>
    ELSE << [filename |-> file.filename, raw_text |-> file.extracted_text] >>

\* The DocumentInputs one iteration of process_claim's loop appends to
\* graph_inputs for file; uploaded_files_metadata gets their filenames.
ProcessFile(file) ==
    IF file.too_large THEN <<>>
    ELSE IF file.read = "raises" THEN <<>>
    ELSE IF file.read = "empty" THEN <<>>
    ELSE IF TextLen(file.extracted_text) = 0 THEN <<>>
    ELSE << [filename |-> file.filename, raw_text |-> file.extracted_text] >>

\* process_claim without its test of graph_inputs.
HasInputsUnchecked(graph_inputs) == TRUE

\* The negation of `if not graph_inputs`.
HasInputs(graph_inputs) == graph_inputs # <<>>

\* Two requests: the graph run of ThisRequest is followed node by node, of
\* OtherRequest only process_claim up to its call of the graph.
ThisRequest == "request_1"

OtherRequest == "request_2"

Requests == {ThisRequest, OtherRequest}

\* ------------------------------------------------------------- truncation

\* The characters of a document's text each node sends to inference at most.
ClassificationLimit == 10000

BillLimit == 8000

IdLimit == 5000

DischargeLimit == 15000

TextLimitOfClassifier(node) == ClassificationLimit

\* The n of `truncated_text = raw_text[:n]` in each node.
TextLimit(node) ==
    CASE node = "classifier"          -> ClassificationLimit
      [] node = "bill_extractor"      -> BillLimit
      [] node = "id_extractor"        -> IdLimit
      [] node = "discharge_extractor" -> DischargeLimit

\* raw_text[:n]: the whitespace a text begins with, then its other
\* characters, n characters at most.
Truncate(raw_text, n) ==
    LET ws == IF raw_text.ws < n THEN raw_text.ws ELSE n
        core == IF raw_text.core < n - ws THEN raw_text.core ELSE n - ws
    IN  [ws |-> ws, core |-> core]

\* Texts of a length at each limit and one character beyond it, and a text
\* whose first character is whitespace.
LimitTexts ==
    {[ws |-> 0, core |-> n + more] :
        n \in {ClassificationLimit, BillLimit, IdLimit, DischargeLimit},
        more \in {0, 1}}
    \cup {[ws |-> 1, core |-> DischargeLimit]}

\* ------------------------------------------------------ inference outcomes
\* What one awaited inference call can do: raise an exception or return a
\* value of the requested schema.

Exceptions == {[type |-> "TimeoutError", msg |-> "timed out"]}

Failures == {[kind |-> "raise", exc |-> e] : e \in Exceptions}

\* The awaited call ends with asyncio.CancelledError, which is a
\* BaseException and no Exception.
Cancellation ==
    [kind |-> "cancelled", exc |-> [type |-> "CancelledError", msg |-> ""]]

\* ClassificationSchema: doc_type, confidence (percent), reasoning.  A
\* formatted string is the sequence of its literal and interpolated parts.
ClsOutcomes ==
    Failures \cup
    {[kind |-> "ok", doc_type |-> t, confidence |-> 90, reasoning |-> <<"llm">>] :
        t \in DocumentType}

\* BillSchema, IDCardSchema, DischargeSummarySchema as inference returns
\* them: optional fields are None or filled, currency and procedures have
\* non-None defaults.  One response per schema, with fields of both kinds.
BillSchema ==
    {[invoice_number |-> "INV-1",
      hospital_name  |-> None,
      bill_date      |-> None,
      total_amount   |-> "250",
      currency       |-> "USD"]}

IDCardSchema ==
    {[full_name     |-> "Jon Doe",
      policy_number |-> "P-1",
      date_of_birth |-> None,
      group_number  |-> None]}

DischargeSummarySchema ==
    {[patient_name   |-> "Jon Doe",
      admission_date |-> None,
      discharge_date |-> None,
      diagnosis      |-> "flu",
      procedures     |-> "[]"]}

ExtOutcomes(schema) ==
    Failures \cup {[kind |-> "ok", response |-> r] : r \in schema}

\* response.model_dump(exclude_none=True)
ModelDumpExcludeNone(response) ==
    [k \in {f \in DOMAIN response : response[f] # None} |-> response[k]]

\* ------------------------------------------------------ classification_node

\* The length test on the unstripped text.
IsTooShortUnstripped(raw_text) ==
    TextLen(raw_text) = 0 \/ TextLen(raw_text) < MinTextLen

\* `not raw_text or len(raw_text.strip()) < 10`
IsTooShort(raw_text) ==
    TextLen(raw_text) = 0 \/ StripLen(raw_text) < MinTextLen

\* The iteration with an except clause that only logs.
ClassifyDocSkipFailed(doc_input, outcome) ==
    IF IsTooShort(doc_input.raw_text)
    THEN << [filename   |-> doc_input.filename,
             doc_type   |-> "other",
             reasoning  |-> <<"Insufficient text content extracted.">>,
             confidence |-> 0,
             raw_text   |-> doc_input.raw_text] >>
    ELSE IF outcome.kind = "ok"
    THEN << [filename   |-> doc_input.filename,
             doc_type   |-> outcome.doc_type,
             reasoning  |-> outcome.reasoning,
             confidence |-> outcome.confidence,
             raw_text   |-> doc_input.raw_text] >>
    ELSE <<>>

\* The iteration with an except clause that reuses the short-text sentinel.
ClassifyDocShortSentinel(doc_input, outcome) ==
    IF IsTooShort(doc_input.raw_text) \/ outcome.kind # "ok"
    THEN << [filename   |-> doc_input.filename,
             doc_type   |-> "other",
             reasoning  |-> <<"Insufficient text content extracted.">>,
             confidence |-> 0,
             raw_text   |-> doc_input.raw_text] >>
    ELSE << [filename   |-> doc_input.filename,
             doc_type   |-> outcome.doc_type,
             reasoning  |-> outcome.reasoning,
             confidence |-> outcome.confidence,
             raw_text   |-> doc_input.raw_text] >>

\* The iteration that does not carry the text over to the
\* ClassifiedDocument.
ClassifyDocDropsText(doc_input, outcome) ==
    IF IsTooShort(doc_input.raw_text)
    THEN << [filename   |-> doc_input.filename,
             doc_type   |-> "other",
             reasoning  |-> <<"Insufficient text content extracted.">>,
             confidence |-> 0,
             raw_text   |-> EmptyText] >>
    ELSE IF outcome.kind = "ok"
    THEN << [filename   |-> doc_input.filename,
             doc_type   |-> outcome.doc_type,
             reasoning  |-> outcome.reasoning,
             confidence |-> outcome.confidence,
             raw_text   |-> EmptyText] >>
    ELSE << [filename   |-> doc_input.filename,
             doc_type   |-> "other",
             reasoning  |-> <<"Classification failed: ", outcome.exc.msg>>,
             confidence |-> 0,
             raw_text   |-> EmptyText] >>

\* The ClassifiedDocuments one loop iteration appends for doc_input, given
\* what the inference call does if it is issued.
ClassifyDoc(doc_input, outcome) ==
    IF IsTooShort(doc_input.raw_text)
    THEN << [filename   |-> doc_input.filename,
             doc_type   |-> "other",
             reasoning  |-> <<"Insufficient text content extracted.">>,
             confidence |-> 0,
             raw_text   |-> doc_input.raw_text] >>
    ELSE IF outcome.kind = "ok"
    THEN << [filename   |-> doc_input.filename,
             doc_type   |-> outcome.doc_type,
             reasoning  |-> outcome.reasoning,
             confidence |-> outcome.confidence,
             raw_text   |-> doc_input.raw_text] >>
    ELSE << [filename   |-> doc_input.filename,
             doc_type   |-> "other",
             reasoning  |-> <<"Classification failed: ", outcome.exc.msg>>,
             confidence |-> 0,
             raw_text   |-> doc_input.raw_text] >>

\* Whether the iteration awaits structured_llm.ainvoke for doc_input.
ClassifierCalls(doc_input) == ~IsTooShort(doc_input.raw_text)


\* ------------------------------------------------------- extraction nodes

Extractors == {"bill_extractor", "discharge_extractor", "id_extractor"}

\* The discharge filter copied from the bill node: it keeps bills too.
TargetTypesDischargeKeepsBills(node) ==
    CASE node = "bill_extractor"      -> {"bill", "pharmacy_bill"}
      [] node = "discharge_extractor" -> {"bill", "discharge_summary"}
      [] node = "id_extractor"        -> {"id_card"}

\* The bill filter widened to claim forms.
TargetTypesBillKeepsClaimForms(node) ==
    CASE node = "bill_extractor"      -> {"bill", "pharmacy_bill", "claim_form"}
      [] node = "discharge_extractor" -> {"discharge_summary"}
      [] node = "id_extractor"        -> {"id_card"}

\* The doc_types each node's filter keeps.
TargetTypes(node) ==
    CASE node = "bill_extractor"      -> {"bill", "pharmacy_bill"}
      [] node = "discharge_extractor" -> {"discharge_summary"}
      [] node = "id_extractor"        -> {"id_card"}

\* The schema each node requests from inference.
Schema(node) ==
    CASE node = "bill_extractor"      -> BillSchema
      [] node = "discharge_extractor" -> DischargeSummarySchema
      [] node = "id_extractor"        -> IDCardSchema

\* The positions in docs of the documents of target_docs, in order.
RECURSIVE TargetIdx(_, _, _)
TargetIdx(node, docs, from) ==
    IF from > Len(docs) THEN <<>>
    ELSE (IF docs[from].doc_type \in TargetTypes(node) THEN <<from>> ELSE <<>>)
         \o TargetIdx(node, docs, from + 1)

\* The iteration with an except clause that only logs.
ExtractDocSkipFailed(doc, outcome) ==
    IF outcome.kind = "ok"
    THEN << [filename |-> doc.filename,
             doc_type |-> doc.doc_type,
             raw_text |-> doc.raw_text,
             data     |-> ModelDumpExcludeNone(outcome.response)] >>
    ELSE <<>>

\* The iteration with an except clause that emits the schema's defaults
\* instead of the error marker.
ExtractDocDefaultsOnFailure(doc, outcome) ==
    << [filename |-> doc.filename,
        doc_type |-> doc.doc_type,
        raw_text |-> doc.raw_text,
        data     |-> IF outcome.kind = "ok"
                     THEN ModelDumpExcludeNone(outcome.response)
                     ELSE [currency |-> "USD"]] >>

\* The ExtractedDocuments one loop iteration appends for doc, given what the
\* inference call does.
ExtractDoc(doc, outcome) ==
    IF outcome.kind = "ok"
    THEN << [filename |-> doc.filename,
             doc_type |-> doc.doc_type,
             raw_text |-> doc.raw_text,
             data     |-> ModelDumpExcludeNone(outcome.response)] >>
    ELSE << [filename |-> doc.filename,
             doc_type |-> doc.doc_type,
             raw_text |-> doc.raw_text,
             data     |-> [extraction_error |-> outcome.exc.msg,
                           error_type       |-> outcome.exc.type]] >>

\* --------------------------------------------------- claim_validation_node

\* ValidationReport as inference can return it: a status the schema admits
\* (a verdict or, as here "pending", another DocStatus) without findings, or
\* a rejection with findings.
Findings == << [severity |-> "medium", message |-> <<"llm">>] >>

ValResponses ==
    {[status |-> s, reason |-> "llm", discrepancies |-> <<>>,
      missing_documents |-> <<>>] : s \in {"approved", "manual_review", "pending"}}
    \cup
    {[status |-> "rejected", reason |-> "llm", discrepancies |-> Findings,
      missing_documents |-> <<"bill", "discharge_summary">>]}

ValOutcomes ==
    Failures \cup {[kind |-> "ok", response |-> r] : r \in ValResponses}

FallbackReason ==
    "Validation could not be completed due to an internal error. Please review manually."

\* The payload that leaves out the documents whose extraction failed.
ContextDataSkipsErrors(docs) ==
    LET ok == SelectSeq(docs, LAMBDA d : "extraction_error" \notin DOMAIN d.data)
    IN  [i \in 1..Len(ok) |->
            [file_name      |-> ok[i].filename,
             file_type      |-> ok[i].doc_type,
             extracted_data |-> ok[i].data]]

\* The context payload built from state.extracted_documents.
ContextData(docs) ==
    [i \in 1..Len(docs) |->
        [file_name      |-> docs[i].filename,
         file_type      |-> docs[i].doc_type,
         extracted_data |-> docs[i].data]]

\* The node without its except clause: a failed call leaves the node as an
\* exception.
ClaimValidationUncaught(outcome) ==
    IF outcome.kind = "ok"
    THEN [kind   |-> "return",
          report |-> [status            |-> outcome.response.status,
                      reason            |-> outcome.response.reason,
                      discrepancies     |-> outcome.response.discrepancies,
                      missing_documents |-> outcome.response.missing_documents]]
    ELSE [kind |-> "raise", exc |-> outcome.exc]

\* The fallback report with DocStatus.FAILED and no discrepancy.
ClaimValidationFailedStatus(outcome) ==
    IF outcome.kind = "ok"
    THEN [kind   |-> "return",
          report |-> [status            |-> outcome.response.status,
                      reason            |-> outcome.response.reason,
                      discrepancies     |-> outcome.response.discrepancies,
                      missing_documents |-> outcome.response.missing_documents]]
    ELSE [kind   |-> "return",
          report |-> [status            |-> "failed",
                      reason            |-> FallbackReason,
                      discrepancies     |-> <<>>,
                      missing_documents |-> <<>>]]

\* The report built without the response's missing_documents.
ClaimValidationDropsMissing(outcome) ==
    IF outcome.kind = "ok"
    THEN [kind   |-> "return",
          report |-> [status            |-> outcome.response.status,
                      reason            |-> outcome.response.reason,
                      discrepancies     |-> outcome.response.discrepancies,
                      missing_documents |-> <<>>]]
    ELSE [kind   |-> "return",
          report |-> [status            |-> "manual_review",
                      reason            |-> FallbackReason,
                      discrepancies     |->
                          << [severity |-> "high",
                              message  |-> <<"AI Validation Error: ", outcome.exc.msg>>] >>,
                      missing_documents |-> <<>>]]

\* The node with a bare except clause: a cancellation gets the fallback
\* report too.
ClaimValidationBareExcept(outcome) ==
    IF outcome.kind = "ok"
    THEN [kind   |-> "return",
          report |-> [status            |-> outcome.response.status,
                      reason            |-> outcome.response.reason,
                      discrepancies     |-> outcome.response.discrepancies,
                      missing_documents |-> outcome.response.missing_documents]]
    ELSE [kind   |-> "return",
          report |-> [status            |-> "manual_review",
                      reason            |-> FallbackReason,
                      discrepancies     |->
                          << [severity |-> "high",
                              message  |-> <<"AI Validation Error: ", outcome.exc.msg>>] >>,
                      missing_documents |-> <<>>]]

\* The except clause that waves the claim through.
ClaimValidationApprovesOnFailure(outcome) ==
    IF outcome.kind = "ok"
    THEN [kind   |-> "return",
          report |-> [status            |-> outcome.response.status,
                      reason            |-> outcome.response.reason,
                      discrepancies     |-> outcome.response.discrepancies,
                      missing_documents |-> outcome.response.missing_documents]]
    ELSE [kind   |-> "return",
          report |-> [status            |-> "approved",
                      reason            |-> FallbackReason,
                      discrepancies     |-> <<>>,
                      missing_documents |-> <<>>]]

\* What the node does once the awaited call has ended: the update it
\* returns, or the exception it lets out (`except Exception` catches what
\* the call raises, not its cancellation).
ClaimValidation(outcome) ==
    IF outcome.kind = "ok"
    THEN [kind   |-> "return",
          report |-> [status            |-> outcome.response.status,
                      reason            |-> outcome.response.reason,
                      discrepancies     |-> outcome.response.discrepancies,
                      missing_documents |-> outcome.response.missing_documents]]
    ELSE IF outcome.kind = "cancelled"
    THEN [kind |-> "raise", exc |-> outcome.exc]
    ELSE [kind   |-> "return",
          report |-> [status            |-> "manual_review",
                      reason            |-> FallbackReason,
                      discrepancies     |->
                          << [severity |-> "high",
                              message  |-> <<"AI Validation Error: ", outcome.exc.msg>>] >>,
                      missing_documents |-> <<>>]]

\* ------------------------------------------------------------ the workflow

Nodes == {"classifier", "claim_validator"} \cup Extractors

START == "__start__"

END == "__end__"

\* The id extractor wired to START instead of to the classifier.
EdgesIdFromStart ==
    { <<START, "classifier">>,
      <<"classifier", "bill_extractor">>,
      <<"classifier", "discharge_extractor">>,
      <<START, "id_extractor">>,
      <<"bill_extractor", "claim_validator">>,
      <<"discharge_extractor", "claim_validator">>,
      <<"id_extractor", "claim_validator">>,
      <<"claim_validator", END>> }

\* The three extractors fanned out from START, beside the classifier.
EdgesExtractorsFromStart ==
    { <<START, "classifier">>,
      <<START, "bill_extractor">>,
      <<START, "discharge_extractor">>,
      <<START, "id_extractor">>,
      <<"bill_extractor", "claim_validator">>,
      <<"discharge_extractor", "claim_validator">>,
      <<"id_extractor", "claim_validator">>,
      <<"claim_validator", END>> }

Edges ==
    { <<START, "classifier">>,
      <<"classifier", "bill_extractor">>,
      <<"classifier", "discharge_extractor">>,
      <<"classifier", "id_extractor">>,
      <<"bill_extractor", "claim_validator">>,
      <<"discharge_extractor", "claim_validator">>,
      <<"id_extractor", "claim_validator">>,
      <<"claim_validator", END>> }

\* The nodes the engine schedules after the nodes of from have returned.
Triggered(from) == {n \in Nodes : \E m \in from : <<m, n>> \in Edges}

\* A reducer that keeps the latest update only.
KeepLatest(left, right) == right

\* The reducer of ClaimState.extracted_documents (operator.add on lists).
OperatorAdd(left, right) == left \o right

\* The channel value after the reducer has taken the updates of nodes one by
\* one; order is a sequence of node names, updates the values they returned.
RECURSIVE ApplyUpdates(_, _, _)
ApplyUpdates(value, order, updates) ==
    IF order = <<>> THEN value
    ELSE ApplyUpdates(OperatorAdd(value, updates[Head(order)]), Tail(order), updates)

\* Every order in which the nodes of S can be taken.
RECURSIVE Orders(_)
Orders(S) ==
    IF S = {} THEN {<<>>}
    ELSE UNION {{<<n>> \o rest : rest \in Orders(S \ {n})} : n \in S}

\* The id extractor returning its list under the classifier's key.
UpdateKeyIdWritesClassified(node) ==
    IF node = "classifier" \/ node = "id_extractor" THEN "classified_docs"
    ELSE IF node \in Extractors THEN "extracted_documents"
    ELSE "validation_report"

\* The one key of the dict each node returns.
UpdateKey(node) ==
    IF node = "classifier" THEN "classified_docs"
    ELSE IF node \in Extractors THEN "extracted_documents"
    ELSE "validation_report"

\* ------------------------------------------------------ background upload

\* The files background_tasks is to keep at most in a run that follows the
\* uploads through.
MaxBackgroundFiles == 1

\* process_claim gives a file's upload to background_tasks once its bytes
\* are read and found non-empty, before any text is extracted from them.
AddTask(file) ==
    IF file.too_large \/ file.read # "bytes" THEN <<>> ELSE <<file.filename>>

RECURSIVE Scheduled(_)
Scheduled(fs) ==
    IF fs = <<>> THEN <<>> ELSE AddTask(Head(fs)) \o Scheduled(Tail(fs))

\* What the object store does with an upload: it takes it, the client
\* reports an error, or the key cannot be built.
S3Outcomes == {"stored", "ClientError", "ValueError"}

\* upload_file_sync turns a ClientError into an HTTPException and lets any
\* other exception through.
UploadFileSync(outcome) ==
    IF outcome = "stored" THEN [kind |-> "return", exc |-> None]
    ELSE IF outcome = "ClientError" THEN [kind |-> "raise", exc |-> "HTTPException"]
    ELSE [kind |-> "raise", exc |-> outcome]

BackgroundS3UploadUncaught(outcome) ==
    IF UploadFileSync(outcome).kind = "return" THEN "uploaded" ELSE "raised"

\* background_s3_upload logs the success, or catches the exception and logs
\* the failure.
BackgroundS3Upload(outcome) ==
    IF UploadFileSync(outcome).kind = "return" THEN "uploaded" ELSE "logged"

\* ---------------------------------------------------------- text extraction

\* The pages of the longest document.
MaxPages == 6

\* A first page with fewer characters than this, once stripped, makes the
\* document a scanned one.
ScannedThreshold == 50

\* _perform_ai_ocr transcribes this many pages at most.
OcrPageLimit == 5

\* What page.get_text() gives for a page: nothing, or text of a length at
\* either side of the threshold.
FirstPageTexts ==
    {[ws |-> 1, core |-> ScannedThreshold - 1], [ws |-> 0, core |-> ScannedThreshold]}

LaterPageTexts == {EmptyText, [ws |-> 0, core |-> ScannedThreshold]}

PagesOf(n) ==
    IF n = 0 THEN {<<>>}
    ELSE {p \in [1..n -> FirstPageTexts \cup LaterPageTexts] :
            /\ p[1] \in FirstPageTexts
            /\ \A i \in 2..n : p[i] \in LaterPageTexts}

\* The documents file_bytes can hold: one fitz cannot open, and those of
\* zero to MaxPages pages.
PdfDocs ==
    {[opens |-> FALSE, pages |-> <<>>]}
    \cup {[opens |-> TRUE, pages |-> p] : p \in UNION {PagesOf(n) : n \in 0..MaxPages}}

\* A text is the sequence of its parts; the empty string has none.
EmptyString == <<>>

MarkdownText == <<[part |-> "markdown", page |-> 0]>>

PlainPart(i) == [part |-> "plain", page |-> i]

\* f"--- PAGE {i+1} (OCR) ---\n{response.content}", i + 1 being page.
PagePart(page) == [part |-> "ocr", page |-> page]

\* "\n...[Remaining pages truncated]..."
TruncationMarker == [part |-> "truncated", page |-> 0]

IsEmptyDocumentUnchecked(doc) == FALSE

\* `doc.page_count == 0`; without it doc[0] raises for such a document.
IsEmptyDocument(doc) == Len(doc.pages) = 0

IsScannedUnstripped(first_page_text) == TextLen(first_page_text) < ScannedThreshold

\* is_scanned = len(first_page_text.strip()) < 50
IsScanned(first_page_text) == StripLen(first_page_text) < ScannedThreshold

\* pymupdf4llm.to_markdown raises, or returns a text that may be empty.
MarkdownOutcomes ==
    {[kind |-> "raise", text |-> EmptyString],
     [kind |-> "ok", text |-> EmptyString],
     [kind |-> "ok", text |-> MarkdownText]}

\* Strategy 1: the markdown is returned as it is; an exception is logged
\* and leads to strategy 2.
StructuredExtraction(outcome) ==
    IF outcome.kind = "ok" THEN [kind |-> "return", text |-> outcome.text]
    ELSE [kind |-> "fallback", text |-> EmptyString]

\* Strategy 2: raw_text, the pages' texts one after the other.
RECURSIVE RawText(_, _)
RawText(pages, from) ==
    IF from > Len(pages) THEN EmptyString
    ELSE (IF TextLen(pages[from]) > 0 THEN <<PlainPart(from)>> ELSE <<>>)
         \o RawText(pages, from + 1)

\* len(raw_text.strip()): the text between the first and the last character
\* that is not whitespace.  A page's whitespace precedes its other
\* characters.
RECURSIVE RawStripLen(_, _, _)
RawStripLen(pages, from, started) ==
    IF from > Len(pages) THEN 0
    ELSE IF pages[from].core = 0 /\ ~started THEN RawStripLen(pages, from + 1, FALSE)
    ELSE (IF started THEN TextLen(pages[from]) ELSE StripLen(pages[from]))
         + RawStripLen(pages, from + 1, TRUE)

PlainNeverSufficient(pages) == FALSE

\* `len(raw_text.strip()) < 50` sends the document to _perform_ai_ocr.
PlainSufficient(pages) == RawStripLen(pages, 1, FALSE) >= ScannedThreshold

\* What processing a page in _perform_ai_ocr does: get_pixmap raises,
\* llm.invoke raises, or the page is transcribed.
PageOutcomes == {"render_raises", "invoke_raises", "transcribed"}

ClientOutcomes == {"constructed", "raises"}

PlainOutcomes == {"read", "raises"}

\* One iteration of the loop over the pages, for the page numbered page:
\* get_pixmap is called before the try that guards llm.invoke.
OcrPage(text, page, outcome) ==
    IF page > OcrPageLimit
    THEN [kind |-> "break", full_text |-> Append(text, TruncationMarker)]
    ELSE IF outcome = "render_raises"
    THEN [kind |-> "raise", full_text |-> text]
    ELSE IF outcome = "invoke_raises"
    THEN [kind |-> "continue", full_text |-> text]
    ELSE [kind |-> "continue", full_text |-> Append(text, PagePart(page))]

CriticalErrorReraised(failure) == [kind |-> "raise", text |-> EmptyString]

\* except Exception of extract_text_from_bytes: the error is logged and the
\* empty string returned.
CriticalError(failure) == [kind |-> "return", text |-> EmptyString]

\* ---------------------------------------------------------------- providers
\* src/core/llm.py

\* The values of an API key in settings: "" is its default.
ApiKeys == {"", "key-1", "key-2"}

Settings == [GEMINI_API_KEY : ApiKeys, OPENAI_API_KEY : ApiKeys]

\* Temperatures, in tenths, that the clients accept.
Temperatures == {0, 7, 10}

\* The entries of the dict that are not commented out.
ConfiguredProviders == {"gemini", "openai"}

GetProviderConfig(settings) ==
    [provider \in ConfiguredProviders |->
        LET api_key == IF provider = "gemini"
                       THEN settings.GEMINI_API_KEY
                       ELSE settings.OPENAI_API_KEY
        IN  [api_key |-> api_key,
             class   |-> IF provider = "gemini"
                         THEN "ChatGoogleGenerativeAI"
                         ELSE "ChatOpenAI",
             enabled |-> api_key # ""]]

NoClient == [class |-> None, provider |-> None, temperature |-> 0, api_key |-> ""]

NoCall == [kind |-> "none", client |-> NoClient]

ValueError == [kind |-> "ValueError", client |-> NoClient]

\* get_llm: lru_cache returns the client built by an earlier call with the
\* same arguments, and keeps what a call returns, not what it raises.
GetLlm(cache, config, provider, temperature) ==
    LET held == {c \in cache : c.provider = provider /\ c.temperature = temperature}
    IN  IF held # {}
        THEN [result |-> [kind |-> "client", client |-> CHOOSE c \in held : TRUE],
              cache  |-> cache]
        ELSE IF provider \notin DOMAIN config
        THEN [result |-> ValueError, cache |-> cache]
        ELSE IF ~config[provider].enabled
        THEN [result |-> ValueError, cache |-> cache]
        ELSE LET llm == [class       |-> config[provider].class,
                         provider    |-> provider,
                         temperature |-> temperature,
                         api_key     |-> config[provider].api_key]
             IN  [result |-> [kind |-> "client", client |-> llm],
                  cache  |-> cache \cup {llm}]

PriorityOrderOpenaiFirst ==
    <<"openai", "gemini", "anthropic", "grok", "perplexity", "deepseek">>

PriorityOrder ==
    <<"gemini", "openai", "anthropic", "grok", "perplexity", "deepseek">>

\* The loop of get_default_llm from the k-th provider of priority_order on.
RECURSIVE TryProviders(_, _, _, _)
TryProviders(cache, config, temperature, k) ==
    IF k > Len(PriorityOrder)
    THEN [result |-> ValueError, cache |-> cache]
    ELSE LET provider == PriorityOrder[k]
         IN  IF provider \in DOMAIN config /\ config[provider].enabled
             THEN GetLlm(cache, config, provider, temperature)
             ELSE TryProviders(cache, config, temperature, k + 1)

GetDefaultLlm(cache, config, temperature) ==
    TryProviders(cache, config, temperature, 1)

\* ------------------------------------------------------------------- state

VARIABLES
    inputs,               \* ClaimState.inputs
    classified_docs,      \* ClaimState.classified_docs
    extracted_documents,  \* ClaimState.extracted_documents
    validation_report,    \* ClaimState.validation_report
    graph,                \* "idle", "running", "ended", "failed", "cancelled"
    tasks,                \* the nodes of the current superstep
    done,                 \* those that have returned, in completion order
    updates,              \* the update each node returned last
    completed,            \* how many times each node has returned
    cls_i,                \* classification_node: documents iterated over
    cls_local,            \* classification_node: its classified_docs list
    ext_i,                \* extraction nodes: documents iterated over
    ext_local,            \* extraction nodes: their extracted_results lists
    clsCalls,             \* inference calls issued for inputs[i]
    clsOutcome,           \* what the call for inputs[i] did
    clsSent,              \* the text sent with the call for inputs[i]
    extCalls,             \* inference calls issued for classified_docs[i]
    extOutcome,           \* what the call for classified_docs[i] did
    extSent,              \* the text sent with the call for classified_docs[i]
    valCalls,             \* adjudication calls issued
    valContext,           \* the payload of the last adjudication call
    valOutcome,           \* what the last adjudication call did
    response,             \* what process_claim gave the caller of ThisRequest
    cancelled,            \* whether the run of ThisRequest has been cancelled
    files,                \* process_claim: the files of each request
    file_i,               \* process_claim: files iterated over
    graph_inputs,         \* process_claim: its graph_inputs list
    uploaded_files_metadata, \* process_claim: its uploaded_files_metadata list
    workflow_input,       \* process_claim: the inputs it handed to the graph
    phase,                \* process_claim: "none", "loop", "invoked", "unprocessable"
    s3_pending,           \* process_claim: the uploads given to background_tasks
    s3_log,               \* background_s3_upload: how each upload that ran ended
    pdf_doc,              \* extract_text_from_bytes: the document in file_bytes
    pdf_pc,               \* extract_text_from_bytes: "idle", "start", "ocr", "done"
    attempts,             \* extract_text_from_bytes: the strategies it has tried
    md_outcome,           \* what pymupdf4llm.to_markdown did
    pdf_failure,          \* the step whose exception reached the outer except
    ocr_i,                \* _perform_ai_ocr: pages iterated over
    ocr_outcomes,         \* _perform_ai_ocr: what processing each page did
    full_text,            \* _perform_ai_ocr: its full_text list
    pdf_result,           \* what extract_text_from_bytes gave its caller
    llm_settings,         \* src/core/config.py: the API keys in settings
    llm_cache,            \* get_llm: the clients its lru_cache holds
    llm_result            \* what the last call of get_default_llm did

vars ==
    <<inputs, classified_docs, extracted_documents, validation_report, graph,
      tasks, done, updates, completed, cls_i, cls_local, ext_i, ext_local,
      clsCalls, clsOutcome, clsSent, extCalls, extOutcome, extSent, valCalls,
      valContext, valOutcome, response, cancelled, files, file_i, graph_inputs,
      uploaded_files_metadata, workflow_input, phase, s3_pending, s3_log,
      pdf_doc, pdf_pc, attempts, md_outcome, pdf_failure, ocr_i, ocr_outcomes,
      full_text, pdf_result, llm_settings, llm_cache, llm_result>>

llmVars == <<llm_settings, llm_cache, llm_result>>

backgroundVars == <<s3_pending, s3_log>>

pdfVars ==
    <<pdf_doc, pdf_pc, attempts, md_outcome, pdf_failure, ocr_i, ocr_outcomes,
      full_text, pdf_result>>

requestVars ==
    <<files, file_i, graph_inputs, uploaded_files_metadata, workflow_input, phase>>

channels == <<inputs, classified_docs, extracted_documents, validation_report>>

classifierVars == <<cls_i, cls_local, clsCalls, clsOutcome, clsSent>>

extractorVars == <<ext_i, ext_local, extCalls, extOutcome, extSent>>

validatorVars == <<valCalls, valContext, valOutcome>>

NoReport ==
    [status |-> None, reason |-> None, discrepancies |-> <<>>,
     missing_documents |-> <<>>]

NoOutcome == [kind |-> "none"]

NoResponse == [code |-> 0]

DocIdx == 1..MaxDocs

Returned(node) == \E k \in 1..Len(done) : done[k] = node

Running(node) == graph = "running" /\ node \in tasks /\ ~Returned(node)

\* graph_inputs and uploaded_files_metadata are locals of process_claim:
\* every call has lists of its own.
SharedFrame(request) == ThisRequest

FrameOf(request) == request

\* The filenames of a list of documents, in order.
FilenamesOf(docs) == [i \in 1..Len(docs) |-> docs[i].filename]

\* No node has run and no call has been issued.
NothingRun ==
    /\ classified_docs = <<>>
    /\ extracted_documents = <<>>
    /\ validation_report = NoReport
    /\ done = <<>>
    /\ updates = [n \in Nodes |-> <<>>]
    /\ completed = [n \in Nodes |-> 0]
    /\ cls_i = 0
    /\ cls_local = <<>>
    /\ ext_i = [n \in Extractors |-> 0]
    /\ ext_local = [n \in Extractors |-> <<>>]
    /\ clsCalls = [i \in DocIdx |-> 0]
    /\ clsOutcome = [i \in DocIdx |-> NoOutcome]
    /\ clsSent = [i \in DocIdx |-> EmptyText]
    /\ extCalls = [i \in DocIdx |-> 0]
    /\ extOutcome = [i \in DocIdx |-> NoOutcome]
    /\ extSent = [i \in DocIdx |-> EmptyText]
    /\ valCalls = 0
    /\ valContext = <<>>
    /\ valOutcome = NoOutcome
    /\ response = NoResponse
    /\ cancelled = FALSE

NoDoc == [opens |-> FALSE, pages |-> <<>>]

NoResult == [kind |-> "none", text |-> EmptyString]

\* extract_text_from_bytes has tried nothing yet.
NothingTried ==
    /\ attempts = <<>>
    /\ md_outcome = NoOutcome
    /\ pdf_failure = None
    /\ ocr_i = 0
    /\ ocr_outcomes = <<>>
    /\ full_text = <<>>
    /\ pdf_result = NoResult

\* extract_text_from_bytes is not followed.
NoExtraction ==
    /\ pdf_doc = NoDoc
    /\ pdf_pc = "idle"
    /\ NothingTried

\* get_default_llm is not followed: both keys are set and no client is
\* built yet.
NoLlmCall ==
    /\ llm_settings = [GEMINI_API_KEY |-> "key-1", OPENAI_API_KEY |-> "key-1"]
    /\ llm_cache = {}
    /\ llm_result = NoCall

\* The state in which the process has loaded its settings and get_default_llm
\* has not been called.  No request is under way.
LlmInit ==
    /\ llm_settings \in Settings
    /\ llm_cache = {}
    /\ llm_result = NoCall
    /\ files = [r \in Requests |-> <<>>]
    /\ file_i = [r \in Requests |-> 0]
    /\ graph_inputs = [r \in Requests |-> <<>>]
    /\ uploaded_files_metadata = [r \in Requests |-> <<>>]
    /\ workflow_input = [r \in Requests |-> <<>>]
    /\ phase = [r \in Requests |-> "none"]
    /\ inputs = <<>>
    /\ graph = "idle"
    /\ tasks = {}
    /\ NothingRun
    /\ s3_pending = [r \in Requests |-> <<>>]
    /\ s3_log = <<>>
    /\ NoExtraction

\* The state in which process_claim calls the graph: it hands it a non-empty
\* list of documents, each with a non-empty text, one per usable file.  No
\* other request is under way.
Init ==
    /\ inputs \in SeqsUpTo(DocumentInput, MaxDocs) \ {<<>>}
    /\ inputs[1].filename = FirstFilename
    /\ graph = "running"
    /\ tasks = Triggered({START})
    /\ NothingRun
    /\ files = [r \in Requests |->
                  IF r = ThisRequest
                  THEN [i \in 1..Len(inputs) |->
                          UsableFile(inputs[i].filename, inputs[i].raw_text)]
                  ELSE <<>>]
    /\ file_i = [r \in Requests |-> Len(files[r])]
    /\ graph_inputs = [r \in Requests |-> IF r = ThisRequest THEN inputs ELSE <<>>]
    /\ uploaded_files_metadata = [r \in Requests |-> FilenamesOf(graph_inputs[r])]
    /\ workflow_input = graph_inputs
    /\ phase = [r \in Requests |-> IF r = ThisRequest THEN "invoked" ELSE "none"]
    /\ s3_pending = [r \in Requests |-> Scheduled(files[r])]
    /\ s3_log = <<>>
    /\ NoExtraction
    /\ NoLlmCall

\* The state in which process_claim is called with a non-empty list of
\* files.  No other request is under way.
UploadInit ==
    /\ \E fs \in SeqsUpTo(UploadFiles, MaxDocs) \ {<<>>} :
          /\ fs[1].filename = FirstFilename
          /\ files = [r \in Requests |-> IF r = ThisRequest THEN fs ELSE <<>>]
    /\ file_i = [r \in Requests |-> 0]
    /\ graph_inputs = [r \in Requests |-> <<>>]
    /\ uploaded_files_metadata = [r \in Requests |-> <<>>]
    /\ workflow_input = [r \in Requests |-> <<>>]
    /\ phase = [r \in Requests |-> IF r = ThisRequest THEN "loop" ELSE "none"]
    /\ inputs = <<>>
    /\ graph = "idle"
    /\ tasks = {}
    /\ NothingRun
    /\ s3_pending = [r \in Requests |-> <<>>]
    /\ s3_log = <<>>
    /\ NoExtraction
    /\ NoLlmCall

\* The state in which process_claim is called twice, each time with files
\* that all yield text; the two requests' files have different names.
ConcurrentInit ==
    /\ \E fs \in SeqsUpTo(UsableLongFiles(Filenames), MaxConcurrentFiles) \ {<<>>},
          others \in SeqsUpTo(UsableLongFiles(OtherFilenames), MaxConcurrentFiles) \ {<<>>} :
          /\ fs[1].filename = FirstFilename
          /\ files = [r \in Requests |-> IF r = ThisRequest THEN fs ELSE others]
    /\ file_i = [r \in Requests |-> 0]
    /\ graph_inputs = [r \in Requests |-> <<>>]
    /\ uploaded_files_metadata = [r \in Requests |-> <<>>]
    /\ workflow_input = [r \in Requests |-> <<>>]
    /\ phase = [r \in Requests |-> "loop"]
    /\ inputs = <<>>
    /\ graph = "idle"
    /\ tasks = {}
    /\ NothingRun
    /\ s3_pending = [r \in Requests |-> <<>>]
    /\ s3_log = <<>>
    /\ NoExtraction
    /\ NoLlmCall

\* The state in which process_claim is called with a few files, to be
\* followed until the uploads it has scheduled have run.
BackgroundInit ==
    /\ \E fs \in SeqsUpTo(UploadFiles, MaxBackgroundFiles) \ {<<>>} :
          /\ fs[1].filename = FirstFilename
          /\ files = [r \in Requests |-> IF r = ThisRequest THEN fs ELSE <<>>]
    /\ file_i = [r \in Requests |-> 0]
    /\ graph_inputs = [r \in Requests |-> <<>>]
    /\ uploaded_files_metadata = [r \in Requests |-> <<>>]
    /\ workflow_input = [r \in Requests |-> <<>>]
    /\ phase = [r \in Requests |-> IF r = ThisRequest THEN "loop" ELSE "none"]
    /\ inputs = <<>>
    /\ graph = "idle"
    /\ tasks = {}
    /\ NothingRun
    /\ s3_pending = [r \in Requests |-> <<>>]
    /\ s3_log = <<>>
    /\ NoExtraction
    /\ NoLlmCall

\* The state in which extract_text_from_bytes is called on a document.  No
\* request is under way.
PdfInit ==
    /\ pdf_doc \in PdfDocs
    /\ pdf_pc = "start"
    /\ NothingTried
    /\ files = [r \in Requests |-> <<>>]
    /\ file_i = [r \in Requests |-> 0]
    /\ graph_inputs = [r \in Requests |-> <<>>]
    /\ uploaded_files_metadata = [r \in Requests |-> <<>>]
    /\ workflow_input = [r \in Requests |-> <<>>]
    /\ phase = [r \in Requests |-> "none"]
    /\ inputs = <<>>
    /\ graph = "idle"
    /\ tasks = {}
    /\ NothingRun
    /\ s3_pending = [r \in Requests |-> <<>>]
    /\ s3_log = <<>>
    /\ NoLlmCall

\* The state in which process_claim calls the graph with one document, of a
\* text about as long as the nodes' limits.
TruncationInit ==
    /\ \E t \in LimitTexts : inputs = <<[filename |-> FirstFilename, raw_text |-> t]>>
    /\ graph = "running"
    /\ tasks = Triggered({START})
    /\ NothingRun
    /\ files = [r \in Requests |->
                  IF r = ThisRequest
                  THEN [i \in 1..Len(inputs) |->
                          UsableFile(inputs[i].filename, inputs[i].raw_text)]
                  ELSE <<>>]
    /\ file_i = [r \in Requests |-> Len(files[r])]
    /\ graph_inputs = [r \in Requests |-> IF r = ThisRequest THEN inputs ELSE <<>>]
    /\ uploaded_files_metadata = [r \in Requests |-> FilenamesOf(graph_inputs[r])]
    /\ workflow_input = graph_inputs
    /\ phase = [r \in Requests |-> IF r = ThisRequest THEN "invoked" ELSE "none"]
    /\ s3_pending = [r \in Requests |-> Scheduled(files[r])]
    /\ s3_log = <<>>
    /\ NoExtraction
    /\ NoLlmCall

\* A node returns update: the engine keeps it until the superstep ends.
Return(node, update) ==
    /\ updates' = [updates EXCEPT ![node] = update]
    /\ done' = Append(done, node)
    /\ completed' = [completed EXCEPT ![node] = @ + 1]

\* ----------------------------------------------------------------- actions

\* One iteration of the loop over state.inputs, and the return after the
\* last one.
classification_node ==
    /\ Running("classifier")
    /\ \E outcome \in ClsOutcomes :
        LET i     == cls_i + 1
            more  == i <= Len(inputs)
            call  == more /\ ClassifierCalls(inputs[i])
            local == IF more THEN cls_local \o ClassifyDoc(inputs[i], outcome)
                     ELSE cls_local
        IN  /\ cls_i' = IF more THEN i ELSE cls_i
            /\ cls_local' = local
            /\ clsCalls' = IF call THEN [clsCalls EXCEPT ![i] = @ + 1] ELSE clsCalls
            /\ clsOutcome' = IF call THEN [clsOutcome EXCEPT ![i] = outcome]
                             ELSE clsOutcome
            /\ clsSent' = IF call
                          THEN [clsSent EXCEPT ![i] =
                                  Truncate(inputs[i].raw_text, TextLimit("classifier"))]
                          ELSE clsSent
            /\ IF i >= Len(inputs)
               THEN Return("classifier", local)
               ELSE UNCHANGED <<updates, done, completed>>
    /\ UNCHANGED <<channels, graph, tasks, extractorVars, validatorVars, response,
                   cancelled, requestVars, backgroundVars, pdfVars, llmVars>>

\* One iteration of an extraction node's loop over target_docs, and the
\* return after the last one; the immediate return if target_docs is empty.
ExtractionNode(node) ==
    /\ Running(node)
    /\ \E outcome \in ExtOutcomes(Schema(node)) :
        LET target == TargetIdx(node, classified_docs, 1)
            k      == ext_i[node] + 1
            more   == k <= Len(target)
            local  == IF more
                      THEN ext_local[node]
                           \o ExtractDoc(classified_docs[target[k]], outcome)
                      ELSE ext_local[node]
        IN  /\ ext_i' = IF more THEN [ext_i EXCEPT ![node] = k] ELSE ext_i
            /\ ext_local' = [ext_local EXCEPT ![node] = local]
            /\ extCalls' = IF more THEN [extCalls EXCEPT ![target[k]] = @ + 1]
                           ELSE extCalls
            /\ extOutcome' = IF more THEN [extOutcome EXCEPT ![target[k]] = outcome]
                             ELSE extOutcome
            /\ extSent' = IF more
                          THEN [extSent EXCEPT ![target[k]] =
                                  Truncate(classified_docs[target[k]].raw_text,
                                           TextLimit(node))]
                          ELSE extSent
            /\ IF k >= Len(target)
               THEN Return(node, local)
               ELSE UNCHANGED <<updates, done, completed>>
    /\ UNCHANGED <<channels, graph, tasks, classifierVars, validatorVars, response,
                   cancelled, requestVars, backgroundVars, pdfVars, llmVars>>

bill_extraction_node == ExtractionNode("bill_extractor")

discharge_extraction_node == ExtractionNode("discharge_extractor")

id_extraction_node == ExtractionNode("id_extractor")

\* The adjudication call ending with outcome, and what the node makes of
\* it: an exception that leaves the node ends the run.
Adjudicate(outcome) ==
    /\ Running("claim_validator")
    /\ LET result == ClaimValidation(outcome)
       IN  /\ valCalls' = valCalls + 1
           /\ valContext' = ContextData(extracted_documents)
           /\ valOutcome' = outcome
           /\ IF result.kind = "return"
              THEN /\ Return("claim_validator", result.report)
                   /\ UNCHANGED graph
              ELSE /\ graph' = IF result.exc.type = "CancelledError"
                               THEN "cancelled" ELSE "failed"
                   /\ UNCHANGED <<updates, done, completed>>
    /\ UNCHANGED <<channels, tasks, classifierVars, extractorVars, response,
                   requestVars, backgroundVars, pdfVars, llmVars>>

claim_validation_node ==
    /\ \E outcome \in ValOutcomes : Adjudicate(outcome)
    /\ UNCHANGED cancelled

\* The nodes of the superstep whose returned dict has key.
Writers(key) == {n \in tasks : UpdateKey(n) = key}

\* The end of a superstep: every node of it has returned.  The engine
\* applies the updates (classified_docs and validation_report take the
\* returned value, extracted_documents goes through its reducer once per
\* returning node, in an order this repository does not fix) and schedules
\* the nodes the edges lead to.
Superstep ==
    /\ graph = "running"
    /\ tasks # {}
    /\ \A n \in tasks : Returned(n)
    /\ classified_docs' =
          IF Writers("classified_docs") # {}
          THEN updates[CHOOSE n \in Writers("classified_docs") : TRUE]
          ELSE classified_docs
    /\ \E order \in Orders(Writers("extracted_documents")) :
        extracted_documents' = ApplyUpdates(extracted_documents, order, updates)
    /\ validation_report' =
          IF Writers("validation_report") # {}
          THEN updates[CHOOSE n \in Writers("validation_report") : TRUE]
          ELSE validation_report
    /\ tasks' = Triggered(tasks)
    /\ graph' = IF Triggered(tasks) = {} THEN "ended" ELSE "running"
    /\ done' = <<>>
    /\ cls_i' = 0
    /\ cls_local' = <<>>
    /\ ext_i' = [n \in Extractors |-> 0]
    /\ ext_local' = [n \in Extractors |-> <<>>]
    /\ UNCHANGED <<inputs, updates, completed, clsCalls, clsOutcome, clsSent,
                   extCalls, extOutcome, extSent, validatorVars, response, cancelled, requestVars, backgroundVars, pdfVars, llmVars>>

\* process_claim after claim_graph_app.ainvoke: the response built from the
\* report, or HTTP 500 for any exception.
process_claim ==
    /\ graph \in {"ended", "failed"}
    /\ response = NoResponse
    /\ response' =
        IF graph = "ended" /\ validation_report # NoReport
        THEN [code           |-> 200,
              documents      |-> uploaded_files_metadata[FrameOf(ThisRequest)],
              validation     |->
                  [missing_documents |-> validation_report.missing_documents,
                   discrepancies     |-> validation_report.discrepancies],
              claim_decision |->
                  [status |-> validation_report.status,
                   reason |-> validation_report.reason]]
        ELSE [code |-> 500]
    /\ UNCHANGED <<channels, graph, tasks, done, updates, completed,
                   classifierVars, extractorVars, validatorVars, cancelled,
                   requestVars, backgroundVars, pdfVars, llmVars>>

\* One iteration of process_claim's loop over files.
ProcessClaimFile(r) ==
    /\ phase[r] = "loop"
    /\ file_i[r] < Len(files[r])
    /\ LET docs == ProcessFile(files[r][file_i[r] + 1])
       IN  /\ file_i' = [file_i EXCEPT ![r] = @ + 1]
           /\ graph_inputs' = [graph_inputs EXCEPT ![FrameOf(r)] = @ \o docs]
           /\ uploaded_files_metadata' =
                 [uploaded_files_metadata EXCEPT ![FrameOf(r)] = @ \o FilenamesOf(docs)]
           /\ s3_pending' =
                 [s3_pending EXCEPT ![r] = @ \o AddTask(files[r][file_i[r] + 1])]
    /\ UNCHANGED <<channels, graph, tasks, done, updates, completed,
                   classifierVars, extractorVars, validatorVars, response,
                   cancelled, files, workflow_input, phase, s3_log, pdfVars, llmVars>>

\* process_claim after the loop: HTTP 422 if graph_inputs is empty, the call
\* of the graph on graph_inputs otherwise.
ProcessClaimInvoke(r) ==
    /\ phase[r] = "loop"
    /\ file_i[r] = Len(files[r])
    /\ IF ~HasInputs(graph_inputs[FrameOf(r)])
       THEN /\ phase' = [phase EXCEPT ![r] = "unprocessable"]
            /\ response' = IF r = ThisRequest THEN [code |-> 422] ELSE response
            /\ UNCHANGED <<workflow_input, inputs, graph, tasks>>
       ELSE /\ phase' = [phase EXCEPT ![r] = "invoked"]
            /\ workflow_input' =
                  [workflow_input EXCEPT ![r] = graph_inputs[FrameOf(r)]]
            /\ IF r = ThisRequest
               THEN /\ inputs' = graph_inputs[FrameOf(r)]
                    /\ graph' = "running"
                    /\ tasks' = Triggered({START})
               ELSE UNCHANGED <<inputs, graph, tasks>>
            /\ UNCHANGED response
    /\ UNCHANGED <<classified_docs, extracted_documents, validation_report,
                   done, updates, completed, classifierVars, extractorVars,
                   validatorVars, cancelled, files, file_i, graph_inputs,
                   uploaded_files_metadata, backgroundVars, pdfVars, llmVars>>

process_claim_file == ProcessClaimFile(ThisRequest)

process_claim_invoke == ProcessClaimInvoke(ThisRequest)

\* The same two steps of a second request.
other_process_claim_file == ProcessClaimFile(OtherRequest)

other_process_claim_invoke == ProcessClaimInvoke(OtherRequest)

\* The task that runs process_claim is cancelled while the graph runs: the
\* awaited inference calls end with CancelledError.  classification_node
\* and the extraction nodes catch Exception only, so it leaves them; what
\* claim_validation_node does with it is ClaimValidation's.  process_claim
\* catches Exception only too: it gives its caller nothing.
Cancel ==
    /\ graph = "running"
    /\ \E n \in tasks : Running(n)
    /\ ~cancelled
    /\ cancelled' = TRUE
    /\ IF Running("claim_validator")
       THEN Adjudicate(Cancellation)
       ELSE /\ graph' = "cancelled"
            /\ UNCHANGED <<channels, tasks, done, updates, completed,
                           classifierVars, extractorVars, validatorVars,
                           response, requestVars, backgroundVars, pdfVars, llmVars>>

\* The response of ThisRequest has been sent: one of the uploads given to
\* background_tasks runs, in the order they were added.
background_s3_upload ==
    /\ response.code = 200
    /\ Len(s3_log) < Len(s3_pending[ThisRequest])
    /\ \E outcome \in S3Outcomes :
          s3_log' = Append(s3_log, BackgroundS3Upload(outcome))
    /\ UNCHANGED <<channels, graph, tasks, done, updates, completed,
                   classifierVars, extractorVars, validatorVars, response,
                   cancelled, requestVars, s3_pending, pdfVars, llmVars>>

\* extract_text_from_bytes gives result to its caller.
PdfReturn(result) ==
    /\ pdf_result' = result
    /\ pdf_pc' = "done"

\* An exception reaches the outer except of extract_text_from_bytes.
PdfFail(failure) ==
    /\ pdf_failure' = failure
    /\ PdfReturn(CriticalError(failure))

\* The call of _perform_ai_ocr up to its loop: the vision client is built
\* outside any try of its own.
StartOcr(tried, client) ==
    /\ attempts' = Append(tried, "ocr")
    /\ IF client = "raises"
       THEN PdfFail("client")
       ELSE /\ pdf_pc' = "ocr"
            /\ UNCHANGED <<pdf_failure, pdf_result>>

\* extract_text_from_bytes up to its return, or up to the loop of
\* _perform_ai_ocr.
extract_text_from_bytes ==
    /\ pdf_pc = "start"
    /\ \E md \in MarkdownOutcomes, plain \in PlainOutcomes, client \in ClientOutcomes :
        IF ~pdf_doc.opens
        THEN /\ PdfFail("open")
             /\ UNCHANGED <<attempts, md_outcome>>
        ELSE IF IsEmptyDocument(pdf_doc)
        THEN /\ PdfReturn([kind |-> "return", text |-> EmptyString])
             /\ UNCHANGED <<attempts, md_outcome, pdf_failure>>
        ELSE IF Len(pdf_doc.pages) = 0
        THEN /\ PdfFail("first_page")
             /\ UNCHANGED <<attempts, md_outcome>>
        ELSE IF IsScanned(pdf_doc.pages[1])
        THEN /\ StartOcr(<<>>, client)
             /\ UNCHANGED md_outcome
        ELSE /\ md_outcome' = md
             /\ LET structured == StructuredExtraction(md)
                IN  IF structured.kind = "return"
                    THEN /\ attempts' = <<"markdown">>
                         /\ PdfReturn([kind |-> "return", text |-> structured.text])
                         /\ UNCHANGED pdf_failure
                    ELSE IF plain = "raises"
                    THEN /\ attempts' = <<"markdown", "plain">>
                         /\ PdfFail("plain")
                    ELSE IF ~PlainSufficient(pdf_doc.pages)
                    THEN StartOcr(<<"markdown", "plain">>, client)
                    ELSE /\ attempts' = <<"markdown", "plain">>
                         /\ PdfReturn([kind |-> "return",
                                       text |-> RawText(pdf_doc.pages, 1)])
                         /\ UNCHANGED pdf_failure
    /\ UNCHANGED <<pdf_doc, ocr_i, ocr_outcomes, full_text>>
    /\ UNCHANGED <<channels, graph, tasks, done, updates, completed,
                   classifierVars, extractorVars, validatorVars, response,
                   cancelled, requestVars, backgroundVars, llmVars>>

\* One iteration of the loop of _perform_ai_ocr, and the return after the
\* last page.
perform_ai_ocr ==
    /\ pdf_pc = "ocr"
    /\ \E outcome \in PageOutcomes :
        LET page == ocr_i + 1
            step == OcrPage(full_text, page, outcome)
        IN  IF page > Len(pdf_doc.pages)
            THEN /\ PdfReturn([kind |-> "return", text |-> full_text])
                 /\ UNCHANGED <<ocr_i, ocr_outcomes, full_text, pdf_failure>>
            ELSE IF step.kind = "break"
            THEN /\ full_text' = step.full_text
                 /\ PdfReturn([kind |-> "return", text |-> step.full_text])
                 /\ UNCHANGED <<ocr_i, ocr_outcomes, pdf_failure>>
            ELSE IF step.kind = "raise"
            THEN /\ ocr_i' = page
                 /\ ocr_outcomes' = Append(ocr_outcomes, outcome)
                 /\ PdfFail("render")
                 /\ UNCHANGED full_text
            ELSE /\ ocr_i' = page
                 /\ ocr_outcomes' = Append(ocr_outcomes, outcome)
                 /\ full_text' = step.full_text
                 /\ UNCHANGED <<pdf_pc, pdf_failure, pdf_result>>
    /\ UNCHANGED <<pdf_doc, attempts, md_outcome>>
    /\ UNCHANGED <<channels, graph, tasks, done, updates, completed,
                   classifierVars, extractorVars, validatorVars, response,
                   cancelled, requestVars, backgroundVars, llmVars>>

\* A call of get_default_llm with some temperature.
get_default_llm ==
    /\ \E temperature \in Temperatures :
          LET call == GetDefaultLlm(llm_cache, GetProviderConfig(llm_settings),
                                    temperature)
          IN  /\ llm_result' = call.result
              /\ llm_cache' = call.cache
    /\ UNCHANGED llm_settings
    /\ UNCHANGED <<channels, graph, tasks, done, updates, completed,
                   classifierVars, extractorVars, validatorVars, response,
                   cancelled, requestVars, backgroundVars, pdfVars>>

\* get_llm.cache_clear()
clear_llm_cache ==
    /\ llm_cache # {}
    /\ llm_cache' = {}
    /\ UNCHANGED <<llm_settings, llm_result>>
    /\ UNCHANGED <<channels, graph, tasks, done, updates, completed,
                   classifierVars, extractorVars, validatorVars, response,
                   cancelled, requestVars, backgroundVars, pdfVars>>

Next ==
    \/ classification_node
    \/ bill_extraction_node
    \/ discharge_extraction_node
    \/ id_extraction_node
    \/ claim_validation_node
    \/ Superstep
    \/ process_claim

Spec == Init /\ [][Next]_vars

\* Every awaited call ends and the event loop runs every ready task.
FairSpec == Spec /\ WF_vars(Next)

\* A run on one document with a long text.
TruncationSpec == TruncationInit /\ [][Next]_vars

\* A run that can be cancelled.
CancelNext ==
    \/ Next
    \/ Cancel

CancelSpec == Init /\ [][CancelNext]_vars

\* process_claim from its call on.
UploadNext ==
    \/ process_claim_file
    \/ process_claim_invoke
    \/ Next

UploadSpec == UploadInit /\ [][UploadNext]_vars

\* Two calls of process_claim, interleaved at their awaits.
ConcurrentNext ==
    \/ other_process_claim_file
    \/ other_process_claim_invoke
    \/ UploadNext

ConcurrentSpec == ConcurrentInit /\ [][ConcurrentNext]_vars

\* process_claim from its call on, and the uploads that run once its
\* response is sent.
BackgroundNext ==
    \/ background_s3_upload
    \/ UploadNext

BackgroundSpec == BackgroundInit /\ [][BackgroundNext]_vars

\* extract_text_from_bytes on one document.
PdfNext ==
    \/ extract_text_from_bytes
    \/ perform_ai_ocr

PdfSpec == PdfInit /\ [][PdfNext]_vars

\* Calls of get_default_llm in one process.
LlmNext ==
    \/ get_default_llm
    \/ clear_llm_cache

LlmSpec == LlmInit /\ [][LlmNext]_vars

\* ------------------------------------------------------------- properties

Range(seq) == {seq[k] : k \in 1..Len(seq)}

Count(seq, P(_)) == Cardinality({k \in 1..Len(seq) : P(seq[k])})

\* The extractors' superstep is over: all three have returned and their
\* updates have been applied.
Joined == \A b \in Extractors : completed[b] >= 1 /\ b \notin tasks

ValidatorStarted ==
    "claim_validator" \in tasks \/ valCalls > 0 \/ completed["claim_validator"] > 0

\* C1: the adjudicator does not start until bill_extractor,
\* discharge_extractor and id_extractor have all completed: whenever it is
\* scheduled or has run, each of the three has returned and none is still
\* running, and the step that schedules it is taken when all three have
\* returned in the current superstep, in whatever order and with whatever
\* (possibly empty) lists.
C1_JoinBarrier ==
    /\ [](ValidatorStarted =>
            \A b \in Extractors : completed[b] >= 1 /\ ~Running(b))
    /\ [][("claim_validator" \in tasks' /\ "claim_validator" \notin tasks) =>
            \A b \in Extractors : Returned(b)]_vars

\* The adjudicator is running after a superstep in which one branch matched
\* no document and another did.
C1_Witness ==
    /\ Running("claim_validator")
    /\ \E b \in Extractors : updates[b] = <<>>
    /\ \E b \in Extractors : updates[b] # <<>>

\* The three branches are about to be joined, having completed in the order
\* id, discharge, bill.
C1_OrderReached ==
    /\ done = <<"id_extractor", "discharge_extractor", "bill_extractor">>
    /\ updates["id_extractor"] = <<>>

\* How many of the three returned lists hold doc, counting repetitions.
Contributed(doc) ==
    LET n(b) == Count(updates[b], LAMBDA d : d = doc)
    IN  n("bill_extractor") + n("discharge_extractor") + n("id_extractor")

\* C2: after the three extractor branches have completed,
\* extracted_documents holds every ExtractedDocument every branch returned:
\* its length is the sum of the three lists' lengths, and each document
\* occurs in it as many times as the three lists hold it.
C2_AllContributionsKept ==
    Joined =>
        /\ Len(extracted_documents) =
              Len(updates["bill_extractor"]) + Len(updates["discharge_extractor"])
              + Len(updates["id_extractor"])
        /\ \A b \in Extractors : \A doc \in Range(updates[b]) :
              Count(extracted_documents, LAMBDA d : d = doc) = Contributed(doc)

\* Two branches have contributed a document each and the join has happened.
C2_Witness ==
    /\ Joined
    /\ Cardinality({b \in Extractors : updates[b] # <<>>}) >= 2
    /\ \E b \in Extractors : updates[b] = <<>>

\* A collection of ExtractedDocuments as a set of (filename, data) pairs.
AsPairs(docs) == {<<docs[k].filename, docs[k].data>> : k \in 1..Len(docs)}

ExtractorOrders == Orders(Extractors)

\* C3: the accumulator merge is order-independent: whenever the three
\* branches have returned, merging their lists in any of the six orders
\* (Bill, ID, Discharge; ID, Discharge, Bill; ...) gives the same set of
\* (filename, data) pairs, and after the join extracted_documents is that
\* set.
C3_MergeOrderIndependent ==
    (\A b \in Extractors : completed[b] >= 1) =>
        LET merged(o) == AsPairs(ApplyUpdates(<<>>, o, updates))
            first     == merged(<<"bill_extractor", "id_extractor", "discharge_extractor">>)
        IN  /\ \A o \in ExtractorOrders : merged(o) = first
            /\ Joined => AsPairs(extracted_documents) = first

\* The join has merged two non-empty lists, and another order would have
\* given another sequence.
C3_Witness ==
    /\ Joined
    /\ Cardinality({b \in Extractors : updates[b] # <<>>}) >= 2
    /\ \E o \in ExtractorOrders :
          ApplyUpdates(<<>>, o, updates) # extracted_documents

\* Some classification call, some extraction call and the adjudication call
\* have failed.
FailuresEverywhere ==
    /\ \E i \in DocIdx : clsOutcome[i].kind = "raise"
    /\ \E i \in DocIdx : extOutcome[i].kind = "raise"
    /\ valOutcome.kind = "raise"

\* C4: whichever inference calls fail, a run that entered the graph (with
\* at least one input, as every run does) eventually reaches the terminal
\* node and process_claim answers with the report; it never answers with an
\* error.
C4_AlwaysReachesReport ==
    /\ <>(/\ graph = "ended"
          /\ validation_report # NoReport
          /\ response.code = 200)
    /\ [](graph # "failed" /\ response.code # 500)

\* The run has answered with a report although a classification, an
\* extraction and the adjudication call failed.
C4_Witness ==
    /\ response.code = 200
    /\ FailuresEverywhere

\* C5: when the adjudication call fails, claim_validation_node returns
\* (the graph does not fail) a report with status manual_review, the fixed
\* reason and exactly one discrepancy, of severity high, whose message cites
\* the failure; that report becomes the state's validation_report.
C5_AdjudicationFallback ==
    valOutcome.kind = "raise" =>
        LET report == updates["claim_validator"]
        IN  /\ graph # "failed"
            /\ Returned("claim_validator") \/ graph = "ended"
            /\ report.status = "manual_review"
            /\ report.reason = FallbackReason
            /\ Len(report.discrepancies) = 1
            /\ report.discrepancies[1].severity = "high"
            /\ report.discrepancies[1].message
                  = <<"AI Validation Error: ", valOutcome.exc.msg>>
            /\ graph = "ended" => validation_report = report

\* The adjudication call failed on a non-empty collection and the run has
\* ended with the fallback report.
C5_Witness ==
    /\ valOutcome.kind = "raise"
    /\ graph = "ended"
    /\ validation_report.status = "manual_review"
    /\ extracted_documents # <<>>

RoutedTypes == {"bill", "pharmacy_bill", "id_card", "discharge_summary"}

HasErrorMarker(data) ==
    "extraction_error" \in DOMAIN data /\ "error_type" \in DOMAIN data

\* C6: every ClassifiedDocument routed for extraction yields exactly one
\* ExtractedDocument of its filename in the final extracted_documents,
\* whether its call succeeded or failed: for every filename and routed type,
\* extracted_documents holds as many documents of that filename and type as
\* classified_docs does, and none of any other type.
C6_OneResultPerRoutedDocument ==
    Joined =>
        /\ \A f \in Filenames : \A t \in RoutedTypes :
              Count(extracted_documents,
                    LAMBDA d : d.filename = f /\ d.doc_type = t)
              = Count(classified_docs,
                      LAMBDA d : d.filename = f /\ d.doc_type = t)
        /\ \A d \in Range(extracted_documents) : d.doc_type \in RoutedTypes

\* Two routed documents of the same filename, one extracted and one whose
\* extraction failed, are both in the joined collection.
C6_Witness ==
    /\ Joined
    /\ Len(extracted_documents) = 2
    /\ extracted_documents[1].filename = extracted_documents[2].filename
    /\ \E d \in Range(extracted_documents) : HasErrorMarker(d.data)
    /\ \E d \in Range(extracted_documents) : ~HasErrorMarker(d.data)

\* What an extractor has produced so far: the list it returned, or the list
\* it is building.
BranchResults(b) == IF completed[b] > 0 THEN updates[b] ELSE ext_local[b]

\* C7: extraction failures are isolated per document and per branch: the
\* k-th result of a branch is the result of the k-th document of its
\* target_docs; it carries the error marker (the failure's message and type)
\* iff that document's own call failed and otherwise exactly the non-None
\* fields of that document's own response, whatever the other calls did.
C7_FailureIsolation ==
    \A b \in Extractors :
        LET target  == TargetIdx(b, classified_docs, 1)
            results == BranchResults(b)
        IN  /\ Len(results) <= Len(target)
            /\ completed[b] > 0 => Len(results) = Len(target)
            /\ \A k \in 1..Len(results) :
                  LET doc == classified_docs[target[k]]
                      own == extOutcome[target[k]]
                      res == results[k]
                  IN  /\ res.filename = doc.filename
                      /\ res.doc_type = doc.doc_type
                      /\ own.kind \in {"ok", "raise"}
                      /\ HasErrorMarker(res.data) <=> own.kind = "raise"
                      /\ own.kind = "raise" =>
                            /\ res.data.extraction_error = own.exc.msg
                            /\ res.data.error_type = own.exc.type
                      /\ own.kind = "ok" =>
                            /\ DOMAIN res.data =
                                  {f \in DOMAIN own.response : own.response[f] # None}
                            /\ \A f \in DOMAIN res.data :
                                  res.data[f] = own.response[f]

\* One branch holds a failed and an extracted document, or two branches
\* hold one each.
C7_Witness ==
    /\ \A b \in Extractors : completed[b] > 0
    /\ \E b1, b2 \in Extractors :
          /\ \E d \in Range(updates[b1]) : HasErrorMarker(d.data)
          /\ \E d \in Range(updates[b2]) : ~HasErrorMarker(d.data)

\* The same within one branch.
C7_SameBranchReached ==
    \E b \in Extractors :
        /\ completed[b] > 0
        /\ \E d \in Range(updates[b]) : HasErrorMarker(d.data)
        /\ \E d \in Range(updates[b]) : ~HasErrorMarker(d.data)

\* What the classifier has produced so far: the list it returned, or the
\* list it is building.
ClassifierResults ==
    IF completed["classifier"] > 0 THEN updates["classifier"] ELSE cls_local

ClassifierApplied == completed["classifier"] > 0 /\ "classifier" \notin tasks

\* C8: classification_node produces exactly one ClassifiedDocument per
\* DocumentInput, whatever the inference calls do: the list it returns, and
\* classified_docs once the update is applied, is as long as inputs and its
\* i-th document carries the filename and raw text of inputs[i]; while the
\* loop runs, the list holds one document per input iterated over.
C8_OneClassifiedPerInput ==
    /\ Len(ClassifierResults) <= Len(inputs)
    /\ Running("classifier") => Len(ClassifierResults) = cls_i
    /\ completed["classifier"] > 0 => Len(ClassifierResults) = Len(inputs)
    /\ \A i \in 1..Len(ClassifierResults) :
          /\ ClassifierResults[i].filename = inputs[i].filename
          /\ ClassifierResults[i].raw_text = inputs[i].raw_text
    /\ ClassifierApplied => classified_docs = updates["classifier"]

\* Two inputs have been classified, the first by a failed call and the
\* second without a call.
C8_Witness ==
    /\ ClassifierApplied
    /\ Len(classified_docs) = 2
    /\ clsOutcome[1].kind = "raise"
    /\ clsCalls[2] = 0

\* C9: when the classification call for a document fails, the classifier
\* still emits a ClassifiedDocument for it with doc_type other, confidence
\* 0.0 and a reasoning that cites the failure, and every other document is
\* classified by its own text and its own call alone: as the short-text
\* sentinel if no call was issued for it, as its own response otherwise.
C9_ClassificationFailureIsolated ==
    \A i \in 1..Len(inputs) :
        /\ clsOutcome[i].kind # "none" => i <= Len(ClassifierResults)
        /\ i <= Len(ClassifierResults) =>
              LET doc == ClassifierResults[i]
                  own == clsOutcome[i]
              IN  /\ doc.filename = inputs[i].filename
                  /\ own.kind = "raise" =>
                        /\ doc.doc_type = "other"
                        /\ doc.confidence = 0
                        /\ doc.reasoning = <<"Classification failed: ", own.exc.msg>>
                  /\ own.kind = "ok" =>
                        /\ doc.doc_type = own.doc_type
                        /\ doc.confidence = own.confidence
                        /\ doc.reasoning = own.reasoning
                  /\ own.kind = "none" =>
                        /\ doc.doc_type = "other"
                        /\ doc.confidence = 0
                        /\ doc.reasoning = <<"Insufficient text content extracted.">>

\* The call for the first of two documents failed and the second was
\* classified as a bill by its own call.
C9_Witness ==
    /\ completed["classifier"] > 0
    /\ Len(ClassifierResults) = 2
    /\ clsOutcome[1].kind = "raise"
    /\ clsOutcome[2].kind = "ok"
    /\ ClassifierResults[1].doc_type = "other"
    /\ ClassifierResults[2].doc_type = "bill"

\* C10: an input whose stripped text has 9 characters or fewer is
\* classified as other with confidence 0.0 and no inference call is issued
\* for it; for an input whose stripped text has 10 characters or more
\* exactly one classification call is issued.
C10_ShortTextBoundary ==
    \A i \in 1..Len(ClassifierResults) :
        /\ StripLen(inputs[i].raw_text) <= 9 =>
              /\ ClassifierResults[i].doc_type = "other"
              /\ ClassifierResults[i].confidence = 0
              /\ clsCalls[i] = 0
              /\ clsOutcome[i].kind = "none"
        /\ StripLen(inputs[i].raw_text) >= 10 =>
              /\ clsCalls[i] = 1
              /\ clsOutcome[i].kind # "none"

\* A text of 9 characters between whitespace was short-circuited and a text
\* of 10 characters was sent to inference.
C10_Witness ==
    /\ completed["classifier"] > 0
    /\ \E i, j \in 1..Len(inputs) :
          /\ StripLen(inputs[i].raw_text) = 9
          /\ TextLen(inputs[i].raw_text) >= 10
          /\ clsCalls[i] = 0
          /\ StripLen(inputs[j].raw_text) = 10
          /\ clsCalls[j] = 1

ExtractorStarted(b) == b \in tasks \/ ext_i[b] > 0 \/ completed[b] > 0

\* C11: no extractor node starts before the classifier node has run to
\* completion: whenever an extractor is scheduled or has run, the classifier
\* has returned and is not running, and classified_docs holds the
\* classification of every input (one document per input, in input order);
\* the step that schedules an extractor is taken when the classifier has
\* returned, and it is the step that stores the classifier's list.
C11_ClassifierBeforeExtractors ==
    /\ [](\A b \in Extractors : ExtractorStarted(b) =>
            /\ completed["classifier"] >= 1
            /\ ~Running("classifier")
            /\ Len(classified_docs) = Len(inputs)
            /\ \A i \in 1..Len(inputs) :
                  /\ classified_docs[i].filename = inputs[i].filename
                  /\ classified_docs[i].raw_text = inputs[i].raw_text)
    /\ [][\A b \in Extractors : (b \in tasks' /\ b \notin tasks) =>
            /\ Returned("classifier")
            /\ classified_docs' = updates["classifier"]]_vars

\* The bill extractor is between its first and its second inference call,
\* with both inputs classified as bills.
C11_Witness ==
    /\ Running("bill_extractor")
    /\ ext_i["bill_extractor"] = 1
    /\ Len(classified_docs) = 2
    /\ \A i \in 1..2 : classified_docs[i].doc_type = "bill"

\* C12: in every reachable state extracted_documents is no longer than
\* classified_docs, and classified_docs is no longer than inputs.
C12_LengthsOrdered ==
    /\ Len(extracted_documents) <= Len(classified_docs)
    /\ Len(classified_docs) <= Len(inputs)

\* Two inputs were classified and one of them was routed and extracted.
C12_Witness ==
    /\ Joined
    /\ Len(inputs) = 2
    /\ Len(classified_docs) = 2
    /\ Len(extracted_documents) = 1

\* The target type sets the claim names, branch by branch.
ClaimedTargets(b) ==
    CASE b = "bill_extractor"      -> {"bill", "pharmacy_bill"}
      [] b = "discharge_extractor" -> {"discharge_summary"}
      [] b = "id_extractor"        -> {"id_card"}

\* The branches whose filter keeps classified_docs[i].
BranchesOf(i) ==
    {b \in Extractors : classified_docs[i].doc_type \in TargetTypes(b)}

\* C13: the three extractors consume pairwise disjoint type subsets: no
\* ClassifiedDocument is kept by the filter of more than one branch or sent
\* to inference more than once, every ExtractedDocument a branch produces
\* has a doc_type of that branch's set (bill and pharmacy_bill, id_card,
\* discharge_summary), and no document of type other or claim_form is in
\* extracted_documents.
C13_DisjointBranches ==
    /\ \A b1, b2 \in Extractors :
          b1 # b2 => TargetTypes(b1) \cap TargetTypes(b2) = {}
    /\ \A i \in 1..Len(classified_docs) :
          /\ Cardinality(BranchesOf(i)) <= 1
          /\ extCalls[i] <= 1
    /\ \A b \in Extractors : \A d \in Range(BranchResults(b)) :
          d.doc_type \in ClaimedTargets(b)
    /\ \A d \in Range(extracted_documents) :
          d.doc_type \notin {"other", "claim_form"}

\* A claim form and a pharmacy bill were classified, and only the pharmacy
\* bill was extracted, by the bill branch.
C13_Witness ==
    /\ Joined
    /\ Len(classified_docs) = 2
    /\ classified_docs[1].doc_type = "claim_form"
    /\ classified_docs[2].doc_type = "pharmacy_bill"
    /\ Len(updates["bill_extractor"]) = 1
    /\ Len(extracted_documents) = 1

\* C14: a ValidationReport exists in the ClaimState iff the graph has
\* reached its terminal node: validation_report is absent in every state in
\* which the adjudicator has not completed, and from the step that stores
\* the adjudicator's update, which is the step that ends the graph, it is
\* the report the adjudicator returned.
C14_ReportIffTerminal ==
    /\ validation_report # NoReport <=> graph = "ended"
    /\ completed["claim_validator"] = 0 => validation_report = NoReport
    /\ graph = "ended" =>
          /\ completed["claim_validator"] = 1
          /\ validation_report = updates["claim_validator"]

\* The run has ended with the rejection the adjudicator returned, and
\* process_claim has not answered yet.
C14_Witness ==
    /\ graph = "ended"
    /\ completed["claim_validator"] = 1
    /\ validation_report.status = "rejected"
    /\ response = NoResponse

\* The adjudicator has returned its report and the engine has not stored it
\* yet.
C14_PendingReached ==
    /\ Returned("claim_validator")
    /\ graph = "running"
    /\ updates["claim_validator"].status = "approved"
    /\ validation_report = NoReport

\* Every inference call of the run has failed: no classification or
\* extraction call returned a response, and the adjudication call raised.
EveryCallFailed ==
    /\ \A i \in DocIdx : clsOutcome[i].kind # "ok" /\ extOutcome[i].kind # "ok"
    /\ valOutcome.kind = "raise"

\* C17: if inference fails on every call of a run, every ExtractedDocument
\* of the final state carries the error marker, and the final report, the
\* one process_claim answers with, has status manual_review and exactly one
\* discrepancy, of severity high, whose message starts with
\* "AI Validation Error".
C17_TotalInferenceFailure ==
    (graph = "ended" /\ EveryCallFailed) =>
        /\ \A d \in Range(extracted_documents) : HasErrorMarker(d.data)
        /\ validation_report.status = "manual_review"
        /\ Len(validation_report.discrepancies) = 1
        /\ validation_report.discrepancies[1].severity = "high"
        /\ validation_report.discrepancies[1].message[1] = "AI Validation Error: "
        /\ response # NoResponse =>
              /\ response.code = 200
              /\ response.claim_decision.status = "manual_review"
              /\ response.validation.discrepancies = validation_report.discrepancies

\* Two classification calls and the adjudication call were issued, all
\* failed, and process_claim has answered.
C17_Witness ==
    /\ graph = "ended"
    /\ EveryCallFailed
    /\ clsCalls[1] = 1 /\ clsOutcome[1].kind = "raise"
    /\ clsCalls[2] = 1 /\ clsOutcome[2].kind = "raise"
    /\ valCalls = 1
    /\ response.code = 200

\* With every classification call failed no document is routed: the final
\* extracted_documents is empty.
C17_NothingExtractedReached ==
    /\ graph = "ended"
    /\ EveryCallFailed
    /\ clsCalls[1] = 1
    /\ extracted_documents = <<>>

CallRecords == <<clsCalls, clsOutcome, extCalls, extOutcome, valOutcome>>

C15_ClassifierReached ==
    /\ cancelled
    /\ "classifier" \in tasks
    /\ cls_i = 1
    /\ clsCalls[1] = 1
    /\ valCalls = 0

\* The run was cancelled with one extractor returned and another between
\* two calls.
C15_ExtractorReached ==
    /\ cancelled
    /\ Returned("id_extractor")
    /\ ext_i["bill_extractor"] = 1
    /\ valCalls = 0

\* No file of the request yields usable text.
NoUsableFile ==
    \A k \in 1..Len(files[ThisRequest]) : ProcessFile(files[ThisRequest][k]) = <<>>

NoInferenceCall ==
    /\ \A i \in DocIdx : clsCalls[i] = 0 /\ extCalls[i] = 0
    /\ valCalls = 0

\* C16: if no uploaded file of a batch yields usable text, process_claim
\* answers HTTP 422 and nothing else, and the graph is never invoked: no
\* node is scheduled, no classification, extraction or adjudication call is
\* issued and no ValidationReport is produced.
C16_NoUsableTextIs422 ==
    NoUsableFile =>
        /\ graph = "idle"
        /\ tasks = {}
        /\ phase[ThisRequest] \in {"loop", "unprocessable"}
        /\ NoInferenceCall
        /\ validation_report = NoReport
        /\ \A n \in Nodes : completed[n] = 0
        /\ response.code \in {0, 422}
        /\ phase[ThisRequest] = "unprocessable" <=> response.code = 422

\* Two files, one over the size limit and one whose extraction returned no
\* text, have been answered with 422.
C16_Witness ==
    /\ NoUsableFile
    /\ Len(files[ThisRequest]) = 2
    /\ files[ThisRequest][1].too_large
    /\ TextLen(files[ThisRequest][2].extracted_text) = 0
    /\ response.code = 422

\* A batch with one usable file beside an unreadable one goes through the
\* graph.
C16_UsableReached ==
    /\ ~NoUsableFile
    /\ Len(files[ThisRequest]) = 2
    /\ files[ThisRequest][1].read = "raises"
    /\ graph = "ended"
    /\ response.code = 200

\* The DocumentInputs of the files of fs, in upload order.
RECURSIVE UsableInputs(_)
UsableInputs(fs) ==
    IF fs = <<>> THEN <<>> ELSE ProcessFile(Head(fs)) \o UsableInputs(Tail(fs))

OwnNames(r) == {files[r][k].filename : k \in 1..Len(files[r])}

NamesIn(docs) == {docs[k].filename : k \in 1..Len(docs)}

C18_BothInvokedReached ==
    /\ phase[OtherRequest] = "invoked"
    /\ workflow_input[OtherRequest] # <<>>
    /\ response.code = 200
    /\ valContext # <<>>

Verdicts == {"approved", "rejected", "manual_review"}

\* C19: the status of every ValidationReport the pipeline produces (the one
\* the adjudicator returns, the one the ClaimState holds, the one
\* process_claim answers with) is one of approved, rejected and
\* manual_review.
C19_StatusIsVerdict ==
    /\ completed["claim_validator"] > 0 =>
          updates["claim_validator"].status \in Verdicts
    /\ validation_report # NoReport => validation_report.status \in Verdicts
    /\ response.code = 200 => response.claim_decision.status \in Verdicts

\* The extracted documents include no bill, or no discharge summary.
MandatoryMissing ==
    \/ \A d \in Range(extracted_documents) :
          d.doc_type \notin {"bill", "pharmacy_bill"}
    \/ \A d \in Range(extracted_documents) : d.doc_type # "discharge_summary"

\* C20 as stated: for every claim whose extracted documents include no bill
\* or no discharge summary, the final report's missing_documents is
\* non-empty and its status is rejected.
C20_MissingMandatoryRejected ==
    (graph = "ended" /\ MandatoryMissing) =>
        /\ validation_report.missing_documents # <<>>
        /\ validation_report.status = "rejected"

\* C20 amended: for every claim whose extracted documents include no bill
\* or no discharge summary, the final report's status and missing_documents
\* are the ones the adjudication call returned, and if that call failed the
\* status is manual_review and missing_documents is empty.
C20_VerdictIsInferencesOrFallback ==
    (graph = "ended" /\ MandatoryMissing) =>
        /\ valOutcome.kind \in {"ok", "raise"}
        /\ valOutcome.kind = "ok" =>
              /\ validation_report.status = valOutcome.response.status
              /\ validation_report.missing_documents
                    = valOutcome.response.missing_documents
        /\ valOutcome.kind = "raise" =>
              /\ validation_report.status = "manual_review"
              /\ validation_report.missing_documents = <<>>

\* Only an ID card was extracted and the adjudication call returned the
\* rejection that lists the missing documents.
C20_Witness ==
    /\ graph = "ended"
    /\ Len(extracted_documents) = 1
    /\ extracted_documents[1].doc_type = "id_card"
    /\ valOutcome.kind = "ok"
    /\ validation_report.status = "rejected"
    /\ validation_report.missing_documents = <<"bill", "discharge_summary">>

\* Only an ID card was extracted, the adjudication call failed, and the
\* report is the fallback.
C20_FallbackReached ==
    /\ graph = "ended"
    /\ Len(extracted_documents) = 1
    /\ extracted_documents[1].doc_type = "id_card"
    /\ valOutcome.kind = "raise"
    /\ validation_report.status = "manual_review"
    /\ validation_report.missing_documents = <<>>

\* The names the extracted documents give the patient.
IdentityNames(docs) ==
    {d.data.full_name : d \in {e \in Range(docs) : "full_name" \in DOMAIN e.data}}
    \cup {d.data.patient_name :
            d \in {e \in Range(docs) : "patient_name" \in DOMAIN e.data}}

Extracted(types) ==
    {d \in Range(extracted_documents) : d.doc_type \in types /\ ~HasErrorMarker(d.data)}

\* A bill and a discharge summary were extracted and no two documents name
\* different patients.
CompleteAndConsistent ==
    /\ Extracted({"bill", "pharmacy_bill"}) # {}
    /\ Extracted({"discharge_summary"}) # {}
    /\ Cardinality(IdentityNames(extracted_documents)) <= 1

\* One bill, one discharge summary and one ID card of the same name.
ScenarioA ==
    /\ Len(extracted_documents) = 3
    /\ Cardinality(Extracted({"bill"})) = 1
    /\ Cardinality(Extracted({"discharge_summary"})) = 1
    /\ Cardinality(Extracted({"id_card"})) = 1
    /\ Cardinality(IdentityNames(extracted_documents)) = 1

\* C21 as stated: for every claim with at least one bill, at least one
\* discharge summary and a consistent identity, the final report's status
\* is approved, and for one bill, one discharge summary and one matching ID
\* card its discrepancies are empty.
C21_CompleteClaimApproved ==
    /\ (graph = "ended" /\ CompleteAndConsistent) =>
          validation_report.status = "approved"
    /\ (graph = "ended" /\ ScenarioA) => validation_report.discrepancies = <<>>

\* C21 amended: for every claim with at least one bill, at least one
\* discharge summary and a consistent identity, the final report is
\* approved exactly when the adjudication call returned approved, its
\* discrepancies are the ones that call returned, and if the call failed
\* the report is manual_review with one discrepancy of severity high.
C21_ApprovedIffInferenceApproves ==
    (graph = "ended" /\ CompleteAndConsistent) =>
        /\ valCalls = 1
        /\ validation_report.status = "approved"
              <=> (valOutcome.kind = "ok" /\ valOutcome.response.status = "approved")
        /\ valOutcome.kind = "ok" =>
              validation_report.discrepancies = valOutcome.response.discrepancies
        /\ valOutcome.kind # "ok" =>
              /\ validation_report.status = "manual_review"
              /\ Len(validation_report.discrepancies) = 1
              /\ validation_report.discrepancies[1].severity = "high"

\* A bill and a discharge summary of one patient were extracted and the
\* adjudication call approved the claim without discrepancies.
C21_Witness ==
    /\ graph = "ended"
    /\ CompleteAndConsistent
    /\ IdentityNames(extracted_documents) # {}
    /\ valOutcome.kind = "ok"
    /\ validation_report.status = "approved"
    /\ validation_report.discrepancies = <<>>

\* The same documents, with the adjudication call failing: the report is
\* the fallback.
C21_FallbackReached ==
    /\ graph = "ended"
    /\ CompleteAndConsistent
    /\ valOutcome.kind = "raise"
    /\ validation_report.status = "manual_review"

\* C22: extract_text_from_bytes never raises to its caller: once it is done
\* it has returned a text, and when the opening of the document, the plain
\* extraction that follows a failed structured one, the rendering of a page
\* or the construction of the vision client failed, that text is the empty
\* string.
C22_NeverRaises ==
    /\ pdf_result.kind \in {"none", "return"}
    /\ pdf_pc = "done" <=> pdf_result.kind = "return"
    /\ pdf_failure # None =>
          /\ pdf_failure \in {"open", "plain", "render", "client"}
          /\ pdf_pc = "done"
          /\ pdf_result = [kind |-> "return", text |-> EmptyString]

\* The rendering of a page failed after an earlier page had been
\* transcribed, and the caller got the empty string.
C22_Witness ==
    /\ pdf_failure = "render"
    /\ full_text # <<>>
    /\ pdf_result = [kind |-> "return", text |-> EmptyString]

\* The structured extraction failed and then the plain one.
C22_PlainFailureReached ==
    /\ pdf_failure = "plain"
    /\ md_outcome.kind = "raise"
    /\ pdf_result = [kind |-> "return", text |-> EmptyString]

\* The document could not be opened.
C22_OpenFailureReached ==
    /\ pdf_failure = "open"
    /\ pdf_result = [kind |-> "return", text |-> EmptyString]

\* The vision client could not be built.
C22_ClientFailureReached ==
    /\ pdf_failure = "client"
    /\ attempts = <<"ocr">>
    /\ pdf_result = [kind |-> "return", text |-> EmptyString]

\* The document was opened, has a page, and the strategy is chosen.
StrategyChosen ==
    /\ pdf_pc \in {"ocr", "done"}
    /\ pdf_doc.opens
    /\ Len(pdf_doc.pages) > 0

\* C23: whether a document is treated as scanned depends on its first page
\* only, whatever the later pages hold: with fewer than 50 characters on
\* page 1 once stripped, it goes to vision transcription at once, neither
\* the structure-aware nor the plain extraction being attempted; with 50 or
\* more, the structure-aware extraction is attempted first.
C23_FirstPageDecides ==
    StrategyChosen =>
        IF StripLen(pdf_doc.pages[1]) < ScannedThreshold
        THEN attempts = <<"ocr">> /\ md_outcome = NoOutcome
        ELSE attempts # <<>> /\ attempts[1] = "markdown" /\ md_outcome # NoOutcome

\* A document of 49 characters and a space on page 1 and of digital text on
\* a later page is being transcribed.
C23_Witness ==
    /\ pdf_pc = "ocr"
    /\ TextLen(pdf_doc.pages[1]) = ScannedThreshold
    /\ StripLen(pdf_doc.pages[1]) < ScannedThreshold
    /\ \E i \in 2..Len(pdf_doc.pages) : StripLen(pdf_doc.pages[i]) >= ScannedThreshold
    /\ attempts = <<"ocr">>

\* A document of 50 characters on page 1 and of empty later pages had the
\* structure-aware extraction attempted first.
C23_DigitalReached ==
    /\ pdf_pc = "done"
    /\ Len(pdf_doc.pages) > 1
    /\ StripLen(pdf_doc.pages[1]) = ScannedThreshold
    /\ \A i \in 2..Len(pdf_doc.pages) : TextLen(pdf_doc.pages[i]) = 0
    /\ attempts # <<>>
    /\ attempts[1] = "markdown"

\* C24: the result of the structure-aware extraction is returned only if it
\* is non-empty; when that extraction fails or returns an empty result, the
\* plain per-page extraction is attempted instead of the empty result being
\* returned.
C24_EmptyStructuredFallsBack ==
    (pdf_pc = "done" /\ md_outcome # NoOutcome) =>
        /\ attempts = <<"markdown">> => pdf_result.text # EmptyString
        /\ (md_outcome.kind = "raise" \/ md_outcome.text = EmptyString) =>
              (Len(attempts) >= 2 /\ attempts[2] = "plain")

\* The structure-aware extraction returned an empty text for a document
\* with text on its pages, and the caller got it.
C24_EmptyStructuredReturned ==
    /\ pdf_pc = "done"
    /\ md_outcome = [kind |-> "ok", text |-> EmptyString]
    /\ StripLen(pdf_doc.pages[1]) >= ScannedThreshold
    /\ attempts = <<"markdown">>
    /\ pdf_result = [kind |-> "return", text |-> EmptyString]

\* The structure-aware extraction failed and the plain text was returned.
C24_FailureFallsBackReached ==
    /\ pdf_pc = "done"
    /\ md_outcome.kind = "raise"
    /\ attempts = <<"markdown", "plain">>
    /\ pdf_result = [kind |-> "return", text |-> RawText(pdf_doc.pages, 1)]
    /\ pdf_result.text # EmptyString

\* _perform_ai_ocr has run on the document, with a vision client, and
\* extract_text_from_bytes is done.
OcrDone ==
    /\ pdf_pc = "done"
    /\ attempts # <<>>
    /\ attempts[Len(attempts)] = "ocr"
    /\ pdf_failure # "client"

\* The pages _perform_ai_ocr is to transcribe.
OcrPages ==
    1..(IF Len(pdf_doc.pages) < OcrPageLimit THEN Len(pdf_doc.pages) ELSE OcrPageLimit)

\* How many times llm.invoke was called with the image of page.
VisionRequests(page) ==
    IF page <= Len(ocr_outcomes) /\ ocr_outcomes[page] # "render_raises" THEN 1 ELSE 0

\* C25: for a scanned document of n pages, vision transcription is
\* requested exactly once for each of the pages 1..min(n,5) and never for a
\* page beyond the fifth; when n > 5 the truncation marker is appended, and
\* nothing of a page beyond page 5 is in the returned text.
C25_OncePerPageUpToFive ==
    OcrDone =>
        /\ \A page \in OcrPages : VisionRequests(page) = 1
        /\ \A page \in 1..MaxPages : page > OcrPageLimit => VisionRequests(page) = 0
        /\ Len(pdf_doc.pages) > OcrPageLimit =>
              /\ pdf_result.text # EmptyString
              /\ pdf_result.text[Len(pdf_result.text)] = TruncationMarker
        /\ \A part \in Range(pdf_result.text) : part.page <= OcrPageLimit

\* The rendering of a page failed and a later page among the first five was
\* never sent to transcription.
C25_LaterPageNotRequested ==
    /\ OcrDone
    /\ pdf_failure = "render"
    /\ \E page \in OcrPages : page > ocr_i /\ VisionRequests(page) = 0

\* Every page of a document of more than five pages rendered: five
\* transcriptions were requested and the text ends with the marker.
C25_TruncatedReached ==
    /\ OcrDone
    /\ Len(pdf_doc.pages) > OcrPageLimit
    /\ ocr_outcomes = [page \in 1..OcrPageLimit |-> "transcribed"]
    /\ pdf_result.text = [page \in 1..OcrPageLimit |-> PagePart(page)]
                            \o <<TruncationMarker>>

\* C26: vision OCR is best-effort per page: when the processing of a page
\* fails, that page is left out of the result, and every other page among
\* the first five is transcribed and is in the returned text under its own
\* page number.
C26_BestEffortPerPage ==
    OcrDone =>
        \A page \in OcrPages :
            IF page <= Len(ocr_outcomes) /\ ocr_outcomes[page] # "transcribed"
            THEN PagePart(page) \notin Range(pdf_result.text)
            ELSE PagePart(page) \in Range(pdf_result.text)

\* Page 1 was transcribed, the rendering of page 2 failed, and the caller
\* got the empty string.
C26_TranscriptionsDiscarded ==
    /\ OcrDone
    /\ Len(ocr_outcomes) = 2
    /\ ocr_outcomes = <<"transcribed", "render_raises">>
    /\ full_text = <<PagePart(1)>>
    /\ pdf_result = [kind |-> "return", text |-> EmptyString]

\* The transcription call failed for page 1 only: the text holds every
\* other page under its number.
C26_InvokeFailureOmittedReached ==
    /\ OcrDone
    /\ Len(pdf_doc.pages) = 3
    /\ ocr_outcomes = <<"invoke_raises", "transcribed", "transcribed">>
    /\ pdf_result.text = <<PagePart(2), PagePart(3)>>

\* C27: the upload of the raw bytes is fire-and-forget: whatever an upload
\* does (success, storage error, any exception), the step that runs it
\* leaves the ValidationReport and the response as they are and ends with a
\* log entry, never with an exception; and the response is given without
\* any upload having run.
C27_UploadIsFireAndForget ==
    /\ [](\A k \in 1..Len(s3_log) : s3_log[k] \in {"uploaded", "logged"})
    /\ [][s3_log' # s3_log =>
            /\ response.code = 200
            /\ UNCHANGED <<response, channels, graph, requestVars>>]_vars
    /\ [][response' # response => (s3_log = <<>> /\ s3_log' = <<>>)]_vars

\* The claim was answered with its report while the upload was pending, and
\* the upload then failed: the failure is logged and the answer is the one
\* given before.
C27_Witness ==
    /\ response.code = 200
    /\ response.claim_decision.status = validation_report.status
    /\ s3_pending[ThisRequest] # <<>>
    /\ s3_log = <<"logged">>

\* The same with the upload succeeding.
C27_UploadedReached ==
    /\ response.code = 200
    /\ response.claim_decision.status = validation_report.status
    /\ s3_log = <<"uploaded">>

\* The response is given while the upload it scheduled has not run.
C27_AnsweredBeforeUploadReached ==
    /\ response.code = 200
    /\ s3_pending[ThisRequest] # <<>>
    /\ s3_log = <<>>

\* What the classifier sends to inference for a document: its filename and
\* its text.
Prompt(doc_input) == <<doc_input.filename, doc_input.raw_text>>

\* The document built from a ClassifiedDocument's own filename and raw_text.
Again(doc) == [filename |-> doc.filename, raw_text |-> doc.raw_text]

\* What a deterministic backend can do with the call for again, the call
\* for the k-th input having done clsOutcome[k]: the same for the same
\* prompt.
Deterministic(again, k, outcome) ==
    (ClassifierCalls(inputs[k]) /\ Prompt(again) = Prompt(inputs[k])) =>
        outcome = clsOutcome[k]

\* C28: classification is idempotent under a deterministic inference
\* backend: classifying again the document built from a
\* ClassifiedDocument's own filename and raw_text yields the doc_type the
\* ClassifiedDocument has, whether it came from inference, from the
\* short-text short circuit or from a failed call.
C28_ClassificationIdempotent ==
    \A k \in 1..Len(classified_docs) :
        \A outcome \in ClsOutcomes :
            Deterministic(Again(classified_docs[k]), k, outcome) =>
                LET again == ClassifyDoc(Again(classified_docs[k]), outcome)
                IN  /\ Len(again) = 1
                    /\ again[1].doc_type = classified_docs[k].doc_type

\* The classifier's result holds a document that inference classified as a
\* bill.
C28_Witness ==
    \E k \in 1..Len(classified_docs) :
        /\ clsOutcome[k].kind = "ok"
        /\ classified_docs[k].doc_type = "bill"
        /\ ClassifyDoc(Again(classified_docs[k]), clsOutcome[k])[1].doc_type = "bill"

\* It holds a short-circuited document and one whose call failed.
C28_SentinelsReached ==
    /\ Len(classified_docs) = 2
    /\ \E k \in 1..2 : clsCalls[k] = 0 /\ classified_docs[k].doc_type = "other"
    /\ \E k \in 1..2 : clsOutcome[k].kind = "raise"
                        /\ classified_docs[k].doc_type = "other"

\* Branch b is scheduled or has run, and no classified document is of a type
\* it is to extract.
NoMatch(b) ==
    /\ ExtractorStarted(b)
    /\ \A d \in Range(classified_docs) : d.doc_type \notin ClaimedTargets(b)

\* The branches that are to extract classified_docs[i].
ClaimingBranches(i) ==
    {b \in Extractors : classified_docs[i].doc_type \in ClaimedTargets(b)}

\* C29: an extractor branch whose type filter matches no classified
\* document never iterates, issues no inference call (a document gets calls
\* from the branches of its type only) and returns an empty contribution;
\* and it does return, after which the adjudicator is started.
C29_EmptyBranchCompletes ==
    /\ [](\A b \in Extractors : NoMatch(b) =>
            /\ ext_i[b] = 0
            /\ ext_local[b] = <<>>
            /\ completed[b] >= 1 => updates[b] = <<>>)
    /\ [](\A i \in 1..Len(classified_docs) :
            extCalls[i] <= Cardinality(ClaimingBranches(i)))
    /\ (\E b \in Extractors : b \in tasks /\ NoMatch(b))
          ~> (/\ \A b \in Extractors : NoMatch(b) => completed[b] = 1
              /\ ValidatorStarted)

\* Every document is a bill: the two other branches have returned nothing,
\* no call was issued but the bill extractor's, and the adjudicator has run.
C29_Witness ==
    /\ \A d \in Range(classified_docs) : d.doc_type = "bill"
    /\ NoMatch("id_extractor") /\ NoMatch("discharge_extractor")
    /\ completed["id_extractor"] = 1 /\ updates["id_extractor"] = <<>>
    /\ completed["discharge_extractor"] = 1 /\ updates["discharge_extractor"] = <<>>
    /\ \A i \in 1..Len(classified_docs) : extCalls[i] = 1
    /\ completed["claim_validator"] = 1

\* No branch matches anything and the adjudicator has run all the same.
C29_NoBranchMatchesReached ==
    /\ \A b \in Extractors : NoMatch(b) /\ completed[b] = 1
    /\ \A i \in DocIdx : extCalls[i] = 0
    /\ extracted_documents = <<>>
    /\ graph = "ended"
    /\ validation_report # NoReport

\* The nodes an edge path of one to k edges leads to from a node of from.
RECURSIVE ReachedIn(_, _)
ReachedIn(from, k) ==
    IF k = 0 THEN {}
    ELSE Triggered(from) \cup ReachedIn(Triggered(from), k - 1)

\* C30: the workflow is a fixed acyclic order (no edge path leads from a
\* node back to it) in which each of the five nodes executes exactly once
\* per run: no node ever returns twice, the adjudicator, with its three
\* incoming edges, is scheduled once and issues one call, a run that has
\* ended has run each node once, and validation_report is written once.
C30_EachNodeOnce ==
    /\ \A n \in Nodes : n \notin ReachedIn({n}, Cardinality(Nodes))
    /\ [](/\ \A n \in Nodes : completed[n] <= 1
          /\ valCalls <= 1
          /\ graph = "ended" =>
                /\ \A n \in Nodes : completed[n] = 1
                /\ valCalls = 1)
    /\ [][\A n \in Nodes : (n \in tasks' /\ n \notin tasks) => completed[n] = 0]_vars
    /\ [][validation_report' # validation_report =>
            /\ validation_report = NoReport
            /\ graph' = "ended"]_vars

\* The run has ended after three extractors that each returned, one of them
\* with nothing, and a single adjudication.
C30_Witness ==
    /\ graph = "ended"
    /\ \A n \in Nodes : completed[n] = 1
    /\ \E b \in Extractors : updates[b] = <<>>
    /\ \E b \in Extractors : updates[b] # <<>>
    /\ valCalls = 1
    /\ validation_report = updates["claim_validator"]

\* The payload entry of an ExtractedDocument.
Triple(doc) ==
    [file_name |-> doc.filename, file_type |-> doc.doc_type, extracted_data |-> doc.data]

\* How many documents of the three returned lists have the entry triple.
ContributedAs(triple) ==
    LET n(b) == Count(updates[b], LAMBDA d : Triple(d) = triple)
    IN  n("bill_extractor") + n("discharge_extractor") + n("id_extractor")

\* C31: when the adjudicator runs, its context payload holds exactly one
\* (file_name, file_type, extracted_data) entry for each ExtractedDocument
\* any of the three branches returned, those with the error marker
\* included, and no entry for anything else.
C31_ContextIsAllExtracted ==
    valCalls > 0 =>
        /\ Len(valContext) =
              Len(updates["bill_extractor"]) + Len(updates["discharge_extractor"])
              + Len(updates["id_extractor"])
        /\ \A b \in Extractors : \A doc \in Range(updates[b]) :
              Count(valContext, LAMBDA e : e = Triple(doc)) = ContributedAs(Triple(doc))
        /\ \A e \in Range(valContext) : ContributedAs(e) > 0
        /\ valContext = ContextData(extracted_documents)

\* The adjudicator was called with one entry of extracted data and one
\* entry that carries the error marker, from two branches.
C31_Witness ==
    /\ valCalls = 1
    /\ Len(valContext) = 2
    /\ \E e \in Range(valContext) : HasErrorMarker(e.extracted_data)
    /\ \E e \in Range(valContext) : ~HasErrorMarker(e.extracted_data)
    /\ Cardinality({b \in Extractors : updates[b] # <<>>}) = 2

\* No branch returned a document: the adjudicator was called with an empty
\* payload.
C31_EmptyPayloadReached ==
    /\ valCalls = 1
    /\ valContext = <<>>
    /\ \A b \in Extractors : completed[b] = 1 /\ updates[b] = <<>>

\* The structure-aware extraction has raised and the plain one has not.
PlainExtracted ==
    /\ pdf_pc \in {"ocr", "done"}
    /\ md_outcome.kind = "raise"
    /\ pdf_failure # "plain"

\* C32: when the structure-aware extraction has failed, the plain per-page
\* concatenation is returned if and only if its stripped length is at least
\* 50; otherwise vision transcription is attempted and its result is what
\* is returned.
C32_PlainIffLongEnough ==
    PlainExtracted =>
        IF RawStripLen(pdf_doc.pages, 1, FALSE) >= ScannedThreshold
        THEN /\ attempts = <<"markdown", "plain">>
             /\ pdf_result = [kind |-> "return", text |-> RawText(pdf_doc.pages, 1)]
        ELSE /\ attempts = <<"markdown", "plain", "ocr">>
             /\ (pdf_pc = "done" /\ pdf_failure = None) =>
                   pdf_result = [kind |-> "return", text |-> full_text]

\* The structure-aware extraction failed on a document of two pages of
\* text, and the caller got the two pages' plain text.
C32_Witness ==
    /\ PlainExtracted
    /\ pdf_pc = "done"
    /\ Len(pdf_doc.pages) = 2
    /\ attempts = <<"markdown", "plain">>
    /\ pdf_result.text = <<PlainPart(1), PlainPart(2)>>

\* The plain text is never too short: the plain extraction is attempted
\* for documents with 50 stripped characters on page 1 only, and raw_text
\* holds page 1.
C32_PlainAlwaysLongEnough ==
    PlainExtracted => PlainSufficient(pdf_doc.pages)

\* The file is within the size limit, its bytes were read and are not
\* empty, and the text extracted from them is not empty.
Usable(file) ==
    /\ ~file.too_large
    /\ file.read = "bytes"
    /\ TextLen(file.extracted_text) > 0

\* The DocumentInputs of the usable files among the first n of ThisRequest,
\* in upload order.
ExpectedInputs(n) ==
    LET usable == SelectSeq(SubSeq(files[ThisRequest], 1, n), Usable)
    IN  [k \in 1..Len(usable) |->
            [filename |-> usable[k].filename, raw_text |-> usable[k].extracted_text]]

\* C33: the DocumentInputs passed to the graph, and the documents list of
\* the response, are exactly the uploaded files that were within the size
\* limit, had non-empty bytes, were read without exception and yielded
\* non-empty text, in upload order; a file that yields nothing contributes
\* nothing, and every file after it is still processed.
C33_InputsAreUsableFiles ==
    /\ graph_inputs[ThisRequest] = ExpectedInputs(file_i[ThisRequest])
    /\ uploaded_files_metadata[ThisRequest]
          = FilenamesOf(ExpectedInputs(file_i[ThisRequest]))
    /\ phase[ThisRequest] # "loop" => file_i[ThisRequest] = Len(files[ThisRequest])
    /\ phase[ThisRequest] = "invoked" =>
          /\ workflow_input[ThisRequest] = ExpectedInputs(Len(files[ThisRequest]))
          /\ inputs = workflow_input[ThisRequest]
          /\ inputs # <<>>
    /\ response.code = 200 =>
          response.documents = FilenamesOf(ExpectedInputs(Len(files[ThisRequest])))

\* The first file's extraction returned no text and the second file is
\* usable: the claim was answered with the second file only.
C33_Witness ==
    /\ Len(files[ThisRequest]) = 2
    /\ files[ThisRequest][1].read = "bytes"
    /\ TextLen(files[ThisRequest][1].extracted_text) = 0
    /\ Usable(files[ThisRequest][2])
    /\ inputs = <<[filename |-> files[ThisRequest][2].filename,
                   raw_text |-> files[ThisRequest][2].extracted_text]>>
    /\ response.code = 200
    /\ response.documents = <<files[ThisRequest][2].filename>>

\* A file whose read raised is followed by a usable one, which is passed to
\* the graph.
C33_AfterExceptionReached ==
    /\ Len(files[ThisRequest]) = 2
    /\ files[ThisRequest][1].read = "raises"
    /\ phase[ThisRequest] = "invoked"
    /\ Len(inputs) = 1

\* Two usable files of the same name are both passed, in upload order.
C33_BothPassedReached ==
    /\ Len(files[ThisRequest]) = 2
    /\ phase[ThisRequest] = "invoked"
    /\ Len(inputs) = 2
    /\ inputs[1].filename = inputs[2].filename
    /\ inputs[1].raw_text # inputs[2].raw_text
    /\ inputs[1].raw_text = files[ThisRequest][1].extracted_text

\* C34: each node writes only its own state field: the channels change only
\* in the step that ends a superstep, where the classifier's superstep
\* sets classified_docs alone, the extractors' superstep adds to
\* extracted_documents alone and the adjudicator's superstep sets
\* validation_report alone; inputs never change, and classified_docs never
\* changes once the classifier has completed.
C34_NodesWriteOwnField ==
    /\ [][graph = "running" => inputs' = inputs]_vars
    /\ [][(graph = "running" /\ tasks' = tasks) => UNCHANGED channels]_vars
    /\ [][(graph = "running" /\ "classifier" \in tasks) =>
            /\ UNCHANGED <<extracted_documents, validation_report>>
            /\ classified_docs' \in {classified_docs, updates["classifier"]}]_vars
    /\ [][(graph = "running" /\ tasks \cap Extractors # {}) =>
            /\ UNCHANGED <<classified_docs, validation_report>>
            /\ \/ extracted_documents' = extracted_documents
               \/ \E o \in ExtractorOrders :
                     extracted_documents' = ApplyUpdates(extracted_documents, o, updates)]_vars
    /\ [][(graph = "running" /\ "claim_validator" \in tasks) =>
            /\ UNCHANGED <<classified_docs, extracted_documents>>
            /\ validation_report' \in {validation_report, updates["claim_validator"]}]_vars
    /\ [][(completed["classifier"] >= 1 /\ "classifier" \notin tasks) =>
            classified_docs' = classified_docs]_vars

\* The extractors' superstep has ended: extracted_documents holds two
\* documents, classified_docs is what the classifier returned and there is
\* no report.
C34_Witness ==
    /\ tasks = {"claim_validator"}
    /\ Len(extracted_documents) = 2
    /\ classified_docs = updates["classifier"]
    /\ Len(classified_docs) = 2
    /\ validation_report = NoReport

\* The adjudicator's superstep has ended with the documents as they were.
C34_ReportWrittenReached ==
    /\ graph = "ended"
    /\ validation_report = updates["claim_validator"]
    /\ Len(extracted_documents) = 1
    /\ classified_docs = updates["classifier"]
    /\ inputs = workflow_input[ThisRequest]

\* sent is the first characters of text, as many as text has and limit at
\* most.
IsPrefixUpTo(sent, text, limit) ==
    /\ TextLen(sent) = (IF TextLen(text) < limit THEN TextLen(text) ELSE limit)
    /\ \/ sent.ws = text.ws /\ sent.core <= text.core
       \/ sent.ws <= text.ws /\ sent.core = 0

\* The input a document of the run was made from.
InputOf(doc) == {i \in 1..Len(inputs) : inputs[i].filename = doc.filename}

\* C35: the text sent to inference is the prefix of the document's raw
\* text of at most 10,000 characters for classification, 8,000 for bills,
\* 5,000 for ID cards and 15,000 for discharge summaries, while the
\* raw_text of every ClassifiedDocument and ExtractedDocument is the full
\* text of the input.
C35_PrefixSentFullTextStored ==
    /\ \A i \in 1..Len(inputs) :
          clsCalls[i] > 0 => IsPrefixUpTo(clsSent[i], inputs[i].raw_text, 10000)
    /\ \A i \in 1..Len(classified_docs) :
          extCalls[i] > 0 =>
              IsPrefixUpTo(extSent[i], inputs[i].raw_text,
                           CASE classified_docs[i].doc_type \in {"bill", "pharmacy_bill"}
                                    -> 8000
                             [] classified_docs[i].doc_type = "id_card" -> 5000
                             [] classified_docs[i].doc_type = "discharge_summary"
                                    -> 15000)
    /\ \A i \in 1..Len(classified_docs) :
          classified_docs[i].raw_text = inputs[i].raw_text
    /\ \A d \in Range(cls_local) \cup Range(extracted_documents)
                \cup UNION {Range(ext_local[b]) \cup Range(updates[b]) : b \in Extractors} :
          \E i \in InputOf(d) : d.raw_text = inputs[i].raw_text

\* A text of 15,001 characters was classified as a discharge summary and
\* extracted: 10,000 characters went to the classifier, 15,000 to the
\* extractor, and the ExtractedDocument holds all of them.
C35_Witness ==
    /\ TextLen(inputs[1].raw_text) = DischargeLimit + 1
    /\ clsSent[1] = [ws |-> 0, core |-> ClassificationLimit]
    /\ extSent[1] = [ws |-> 0, core |-> DischargeLimit]
    /\ Len(extracted_documents) = 1
    /\ extracted_documents[1].doc_type = "discharge_summary"
    /\ extracted_documents[1].raw_text = inputs[1].raw_text

\* A text of exactly 5,000 characters goes to the ID card extractor whole.
C35_AtLimitReached ==
    /\ TextLen(inputs[1].raw_text) = IdLimit
    /\ extCalls[1] = 1
    /\ classified_docs[1].doc_type = "id_card"
    /\ extSent[1] = inputs[1].raw_text

\* A bill of 8,001 characters is sent without its last character.
C35_BillCutReached ==
    /\ TextLen(inputs[1].raw_text) = BillLimit + 1
    /\ extCalls[1] = 1
    /\ classified_docs[1].doc_type = "pharmacy_bill"
    /\ extSent[1] = [ws |-> 0, core |-> BillLimit]
    /\ clsSent[1] = inputs[1].raw_text

\* _perform_ai_ocr has returned and the transcription call failed for every
\* page it attempted.
EveryTranscriptionFailed ==
    /\ OcrDone
    /\ pdf_failure = None
    /\ ocr_outcomes # <<>>
    /\ \A page \in 1..Len(ocr_outcomes) : ocr_outcomes[page] = "invoke_raises"

\* C36: if the vision transcription of every attempted page fails,
\* _perform_ai_ocr returns the empty text, whatever the number of pages of
\* the document.
C36_AllFailedIsEmpty ==
    EveryTranscriptionFailed => pdf_result.text = EmptyString

\* The transcription of each of the first five pages of a longer document
\* failed, and the caller got a text that is not empty: the truncation
\* marker.
C36_MarkerOnlyReturned ==
    /\ EveryTranscriptionFailed
    /\ Len(pdf_doc.pages) > OcrPageLimit
    /\ full_text = <<TruncationMarker>>
    /\ pdf_result = [kind |-> "return", text |-> <<TruncationMarker>>]

\* With five pages or fewer the text is empty when every transcription
\* failed.
C36_UpToFivePagesEmpty ==
    (EveryTranscriptionFailed /\ Len(pdf_doc.pages) <= OcrPageLimit) =>
        pdf_result.text = EmptyString

\* Every transcription of a document of five pages failed and the caller
\* got the empty text.
C36_FivePagesEmptyReached ==
    /\ EveryTranscriptionFailed
    /\ Len(pdf_doc.pages) = OcrPageLimit
    /\ pdf_result = [kind |-> "return", text |-> EmptyString]

\* The strategies attempted and the calls issued for the document.
NothingAttempted ==
    /\ attempts = <<>>
    /\ md_outcome = NoOutcome
    /\ ocr_i = 0
    /\ ocr_outcomes = <<>>
    /\ full_text = <<>>

\* C37: a document of zero pages yields the empty text, without the
\* structure-aware extraction, the plain extraction or any vision call
\* being attempted.
C37_ZeroPagesIsEmpty ==
    (pdf_doc.opens /\ Len(pdf_doc.pages) = 0 /\ pdf_pc # "start") =>
        /\ pdf_pc = "done"
        /\ pdf_result = [kind |-> "return", text |-> EmptyString]
        /\ pdf_failure = None
        /\ NothingAttempted

\* The document opened, had no page, and the empty text was returned.
C37_Witness ==
    /\ pdf_doc = [opens |-> TRUE, pages |-> <<>>]
    /\ pdf_pc = "done"
    /\ pdf_result = [kind |-> "return", text |-> EmptyString]
    /\ NothingAttempted

\* C38 -- get_default_llm returns the client of the first enabled provider in
\* the order gemini, openai, anthropic, grok, perplexity, deepseek, and raises
\* ValueError if and only if no provider is enabled.  A provider is enabled
\* when settings holds a non-empty API key for it.
ClaimedOrder == <<"gemini", "openai", "anthropic", "grok", "perplexity", "deepseek">>

KeyOf(provider) ==
    CASE provider = "gemini" -> llm_settings.GEMINI_API_KEY
      [] provider = "openai" -> llm_settings.OPENAI_API_KEY
      [] OTHER -> ""

FirstEnabled(k) ==
    /\ KeyOf(ClaimedOrder[k]) # ""
    /\ \A j \in 1..(k - 1) : KeyOf(ClaimedOrder[j]) = ""

C38_FirstEnabledProvider ==
    llm_result.kind # "none" =>
        /\ llm_result.kind = "ValueError" <=>
              \A k \in 1..Len(ClaimedOrder) : KeyOf(ClaimedOrder[k]) = ""
        /\ \A k \in 1..Len(ClaimedOrder) :
              FirstEnabled(k) =>
                  /\ llm_result.kind = "client"
                  /\ llm_result.client.provider = ClaimedOrder[k]
                  /\ llm_result.client.api_key = KeyOf(ClaimedOrder[k])

\* Both providers are enabled and get_default_llm has returned gemini's client.
C38_Witness ==
    /\ llm_settings.GEMINI_API_KEY # ""
    /\ llm_settings.OPENAI_API_KEY # ""
    /\ llm_result.kind = "client"
    /\ llm_result.client.provider = "gemini"

\* Only the second provider of the order is enabled and its client is returned.
C38_SecondProviderReached ==
    /\ llm_settings.GEMINI_API_KEY = ""
    /\ llm_result.kind = "client"
    /\ llm_result.client.class = "ChatOpenAI"

\* No provider is enabled and get_default_llm has raised ValueError.
C38_ValueErrorReached ==
    /\ llm_settings.GEMINI_API_KEY = ""
    /\ llm_settings.OPENAI_API_KEY = ""
    /\ llm_result.kind = "ValueError"

====
